---- MODULE Spec2Model ----
(***************************************************************************)
(* Legal intake assistant: the 7-phase intake state machine                *)
(* (utils/intakeLogic.ts), the case and person extractors it depends on,   *)
(* the validators, and the three HTTP entry points that write to the       *)
(* store (POST /api/chat, POST /api/person, POST /api/case).               *)
(*                                                                         *)
(* Texts are TLA+ strings and every lexicon test is the substring test the *)
(* code performs; regular expressions are translated to matchers over the  *)
(* characters of the string.  Confidence values are kept in percent        *)
(* (0.6 is 60) so that the arithmetic stays in the integers.               *)
(***************************************************************************)
EXTENDS Integers, Sequences, FiniteSets, TLC

(***************************************************************************)
(* Bounds of the model.                                                    *)
(***************************************************************************)
\* user messages a scripted conversation may contain
MaxUserMessages == 3
\* calls counted by the history counters before they saturate
MaxCalls == 5
\* chat requests of the conversation
MaxTurns == 2
\* person and case requests
MaxRequests == 1
\* documents uploaded to the conversation
MaxDocuments == 1
\* the days and months written into DD.MM.YYYY strings run from 0 to these
MaxDay == 32
MaxMonth == 13
\* calls of extractCaseData in a row
MaxExtractions == 3
\* counts of keywords per legal area, and keywords in a text of keywords
MaxHits == 3
MaxCorpusWords == 3
\* turns of a dialogue in which every turn is one call of updateIntakeState
MaxIntakeTurns == 8

(***************************************************************************)
(* A function taken on its own (a validator, the date parser, the case     *)
(* extractor) is called on an input and what it returns is kept.           *)
(***************************************************************************)
VARIABLES
    argument,       \* the input of the calls: the object that is passed in
    returned        \* the function called, its result, and for the case
                    \* extractor every call so far with its inputs and result

(***************************************************************************)
(* JavaScript values.                                                      *)
(***************************************************************************)
\* the value of an absent optional string (never a text of the model)
Undefined == "<undefined>"
\* JavaScript truthiness of an optional string
Truthy(s) == s # Undefined /\ s # ""

Min(a, b) == IF a < b THEN a ELSE b
Max(a, b) == IF a > b THEN a ELSE b

(***************************************************************************)
(* String primitives.                                                      *)
(***************************************************************************)
\* s.charAt(i - 1): the i-th character (1-based), "" outside the string
CharAt(s, i) == IF i >= 1 /\ i <= Len(s) THEN SubSeq(s, i, i) ELSE ""

\* s.substring(from, to) with 0-based, end-exclusive JavaScript indices
Substring(s, from, to) ==
    LET a == Min(Max(from, 0), Len(s))
        b == Min(Max(to, 0), Len(s))
    IN  SubSeq(s, Min(a, b) + 1, Max(a, b))

\* does pattern p occur in s starting at (1-based) position i
StartsAt(s, i, p) ==
    /\ i >= 1
    /\ i + Len(p) - 1 <= Len(s)
    /\ SubSeq(s, i, i + Len(p) - 1) = p

\* s.includes(p)
Includes(s, p) == \E i \in 1..(Len(s) - Len(p) + 1) : SubSeq(s, i, i + Len(p) - 1) = p

\* s.indexOf(p) as a 1-based position, 0 when p does not occur
IndexOf(s, p) ==
    IF Includes(s, p)
    THEN CHOOSE i \in 1..(Len(s) - Len(p) + 1) :
            /\ StartsAt(s, i, p)
            /\ \A j \in 1..(i - 1) : ~StartsAt(s, j, p)
    ELSE 0

UpperLetters == "ABCDEFGHIJKLMNOPQRSTUVWXYZÄÖÜ"
LowerLetters == "abcdefghijklmnopqrstuvwxyzäöü"
Digits == {"0", "1", "2", "3", "4", "5", "6", "7", "8", "9"}
UpperSet == {CharAt(UpperLetters, k) : k \in 1..Len(UpperLetters)}
LowerSet == {CharAt(LowerLetters, k) : k \in 1..Len(LowerLetters)} \cup {"ß"}
AsciiUpperSet == {CharAt(UpperLetters, k) : k \in 1..26}
AsciiLowerSet == {CharAt(LowerLetters, k) : k \in 1..26}
LowerOf == [c \in UpperSet |-> CharAt(LowerLetters, IndexOf(UpperLetters, c))]
UpperOf == [c \in LowerSet \ {"ß"} |-> CharAt(UpperLetters, IndexOf(LowerLetters, c))]

IsDigit(c) == c \in Digits
\* \s of the regular expressions
IsSpace(c) == c \in {" ", "\n", "\t"}
\* \w of the regular expressions: ASCII letters, digits and the underscore
IsWordChar(c) == c \in AsciiUpperSet \cup AsciiLowerSet \cup Digits \cup {"_"}
\* the class [A-Za-zÄÖÜäöüß]
IsLetter(c) == c \in UpperSet \cup LowerSet

LowerChar(c) == IF c \in DOMAIN LowerOf THEN LowerOf[c] ELSE c
\* "ß".toUpperCase() is "SS"
UpperChar(c) == IF c \in DOMAIN UpperOf THEN UpperOf[c] ELSE IF c = "ß" THEN "SS" ELSE c

\* s.toLowerCase(), character by character (the string is halved at every
\* step, which keeps the recursion shallow)
RECURSIVE ToLowerCase(_)
ToLowerCase(s) ==
    IF Len(s) = 0 THEN ""
    ELSE IF Len(s) = 1 THEN LowerChar(s)
    ELSE ToLowerCase(SubSeq(s, 1, Len(s) \div 2))
         \o ToLowerCase(SubSeq(s, Len(s) \div 2 + 1, Len(s)))

RECURSIVE ToUpperCase(_)
ToUpperCase(s) ==
    IF Len(s) = 0 THEN ""
    ELSE IF Len(s) = 1 THEN UpperChar(s)
    ELSE ToUpperCase(SubSeq(s, 1, Len(s) \div 2))
         \o ToUpperCase(SubSeq(s, Len(s) \div 2 + 1, Len(s)))

\* s.trim()
RECURSIVE TrimStart(_)
TrimStart(s) ==
    IF Len(s) > 0 /\ IsSpace(CharAt(s, 1)) THEN TrimStart(SubSeq(s, 2, Len(s))) ELSE s
RECURSIVE TrimEnd(_)
TrimEnd(s) ==
    IF Len(s) > 0 /\ IsSpace(CharAt(s, Len(s))) THEN TrimEnd(SubSeq(s, 1, Len(s) - 1)) ELSE s
Trim(s) == TrimEnd(TrimStart(s))

\* parts.join(sep)
RECURSIVE Join(_, _)
Join(parts, sep) ==
    IF Len(parts) = 0 THEN ""
    ELSE IF Len(parts) = 1 THEN parts[1]
    ELSE parts[1] \o sep \o Join(Tail(parts), sep)

\* patterns.some(p => text.includes(p))
SomeIncluded(text, patterns) == \E k \in 1..Len(patterns) : Includes(text, patterns[k])

\* keywords.filter(kw => text.includes(kw)).length
CountIncluded(text, keywords) ==
    Cardinality({k \in 1..Len(keywords) : Includes(text, keywords[k])})

\* the first position at or after i that does not hold a space
RECURSIVE SkipSpaces(_, _)
SkipSpaces(s, i) == IF IsSpace(CharAt(s, i)) THEN SkipSpaces(s, i + 1) ELSE i

\* the first position at or after i that does not hold a character of \w
RECURSIVE SkipWord(_, _)
SkipWord(s, i) == IF IsWordChar(CharAt(s, i)) THEN SkipWord(s, i + 1) ELSE i

\* number of digits at positions i, i+1, ... up to at most n
RECURSIVE DigitRun(_, _, _)
DigitRun(s, i, n) ==
    IF n > 0 /\ IsDigit(CharAt(s, i)) THEN 1 + DigitRun(s, i + 1, n - 1) ELSE 0

\* the least element of a set of positions, 0 when the set is empty: the
\* position of the leftmost match of a regular expression
LeastIn(S) == IF S = {} THEN 0 ELSE CHOOSE i \in S : \A j \in S : i <= j

(***************************************************************************)
(* The date token \d{1,2}\.\d{1,2}\.\d{2,4}.                               *)
(***************************************************************************)
\* length of the match of the date token that starts at i (0: no match)
DateLenAt(s, i) ==
    LET a == DigitRun(s, i, 2)
        b == DigitRun(s, i + a + 1, 2)
        c == DigitRun(s, i + a + 1 + b + 1, 4)
    IN  IF /\ a >= 1
           /\ CharAt(s, i + a) = "."
           /\ b >= 1
           /\ CharAt(s, i + a + 1 + b) = "."
           /\ c >= 2
        THEN a + 1 + b + 1 + c
        ELSE 0

\* content.match(/(\d{1,2})\.(\d{1,2})\.(\d{2,4})/g): the matches from left to
\* right, each search resuming after the previous match
RECURSIVE DateMatchesFrom(_, _)
DateMatchesFrom(s, i) ==
    LET at == LeastIn({n \in i..Len(s) : DateLenAt(s, n) > 0})
    IN  IF at = 0 THEN <<>>
        ELSE <<SubSeq(s, at, at + DateLenAt(s, at) - 1)>>
             \o DateMatchesFrom(s, at + DateLenAt(s, at))
DateMatches(s) == DateMatchesFrom(s, 1)

\* the first word of the alternation words that starts at position i of s
\* ("" when none does)
AlternativeAt(s, i, words) ==
    LET k == LeastIn({n \in 1..Len(words) : StartsAt(s, i, words[n])})
    IN  IF k = 0 THEN "" ELSE words[k]

\* the position after \s+ matched at i (0 when no space stands at i)
AfterSpaces(s, i) == IF IsSpace(CharAt(s, i)) THEN SkipSpaces(s, i) ELSE 0

\* the position after (?:word\s+)? matched at i: the optional group is taken
\* whenever it matches
AfterOptionalWord(s, i, word) ==
    IF StartsAt(s, i, word) /\ AfterSpaces(s, i + Len(word)) > 0
    THEN AfterSpaces(s, i + Len(word))
    ELSE i

(***************************************************************************)
(* Messages and documents (lib/supabase-server.ts).                        *)
(***************************************************************************)
Message(role, content) == [role |-> role, content |-> content]
Document(id, fileName, extractedText) ==
    [id |-> id, file_name |-> fileName, extracted_text |-> extractedText]

\* messages.filter(m => m.role === role)
FilterRole(msgs, role) == SelectSeq(msgs, LAMBDA m : m.role = role)
\* messages.map(m => m.content)
\* (TLC builds the function lazily: the parameter has a name no caller uses)
Contents(ofMessages) == [k \in 1..Len(ofMessages) |-> ofMessages[k].content]

(***************************************************************************)
(* Case extractor (utils/caseExtractor.ts).                                *)
(***************************************************************************)
AreaNames ==
    << "Mietrecht", "Arbeitsrecht", "Familienrecht", "Verkehrsrecht",
       "Vertragsrecht", "Strafrecht", "Erbrecht", "Sozialrecht" >>

RECHTSGEBIET_KEYWORDS ==
    << <<"miete", "vermieter", "mieter", "wohnung", "mieterhöhung", "kündigung",
         "mietvertrag", "kaution", "nebenkosten">>,
       <<"arbeit", "chef", "kündigung", "arbeitsvertrag", "gehalt", "lohn",
         "abmahnung", "arbeitgeber", "arbeitnehmer">>,
       <<"scheidung", "ehe", "unterhalt", "sorgerecht", "kind", "trennung",
         "ehepartner">>,
       <<"unfall", "auto", "fahrzeug", "verkehr", "schaden", "versicherung",
         "polizei", "fahrrad">>,
       <<"vertrag", "vereinbarung", "kaufvertrag", "lieferung", "zahlung",
         "forderung", "mahnung">>,
       <<"anzeige", "polizei", "straftat", "diebstahl", "betrug",
         "staatsanwalt", "gericht">>,
       <<"erbe", "testament", "erbschaft", "nachlass", "pflichtteil",
         "verstorben">>,
       <<"rente", "krankenkasse", "arbeitslosengeld", "sozialleistung",
         "behinderung">> >>

URGENCY_KEYWORDS ==
    [ high   |-> <<"dringend", "sofort", "eilig", "frist morgen", "übermorgen",
                   "diese woche", "heute">>,
      medium |-> <<"bald", "zeitnah", "nächste woche", "nächsten monat">>,
      low    |-> <<"irgendwann", "keine eile", "wenn zeit ist">> ]

\* the score of every legal area: its keywords found in the text
AreaScores(text) ==
    [k \in 1..Len(AreaNames) |-> CountIncluded(text, RECHTSGEBIET_KEYWORDS[k])]

\* the loop of detectRechtsgebiet over the areas k, k+1, ...: a later area
\* replaces the detected one only with a strictly higher score
RECURSIVE ScanAreas(_, _, _, _)
ScanAreas(scores, k, maxScore, detectedArea) ==
    IF k > Len(scores) THEN [maxScore |-> maxScore, detectedArea |-> detectedArea]
    ELSE IF scores[k] > maxScore
         THEN ScanAreas(scores, k + 1, scores[k], AreaNames[k])
         ELSE ScanAreas(scores, k + 1, maxScore, detectedArea)

\* the classification of a vector of per-area keyword counts
\* (variant: one keyword is enough)
ClassifyScoresOneHit(scores) ==
    IF ScanAreas(scores, 1, 0, Undefined).maxScore >= 1
    THEN ScanAreas(scores, 1, 0, Undefined).detectedArea ELSE Undefined
ClassifyScores(scores) ==
    LET r == ScanAreas(scores, 1, 0, Undefined)
    IN  IF r.maxScore >= 2 THEN r.detectedArea ELSE Undefined

detectRechtsgebiet(text) == ClassifyScores(AreaScores(text))

\* /mein(?:e)?\s+(vermieter|arbeitgeber|chef|bank|versicherung|nachbar)/i
OpponentNouns == <<"vermieter", "arbeitgeber", "chef", "bank", "versicherung", "nachbar">>
PossessiveOpponentAt(s, i) ==
    IF ~StartsAt(s, i, "mein") THEN ""
    ELSE LET j == IF CharAt(s, i + 4) = "e" THEN i + 5 ELSE i + 4
             k == AfterSpaces(s, j)
         IN  IF k = 0 THEN "" ELSE AlternativeAt(s, k, OpponentNouns)

\* /die\s+(firma|gesellschaft|behörde|stadt|gemeinde)/i
OrganisationNouns == <<"firma", "gesellschaft", "behörde", "stadt", "gemeinde">>
OrganisationOpponentAt(s, i) ==
    IF ~StartsAt(s, i, "die") THEN ""
    ELSE LET k == AfterSpaces(s, i + 3)
         IN  IF k = 0 THEN "" ELSE AlternativeAt(s, k, OrganisationNouns)

\* /gegen\s+(\w+)/i
AgainstOpponentAt(s, i) ==
    IF ~StartsAt(s, i, "gegen") THEN ""
    ELSE LET k == AfterSpaces(s, i + 5)
         IN  IF k = 0 THEN "" ELSE SubSeq(s, k, SkipWord(s, k) - 1)

\* text.match(pattern)[1] for the three opponent patterns ("" when the
\* pattern does not match): the capture of the leftmost match
PossessiveOpponent(s) ==
    LET i == LeastIn({n \in 1..Len(s) : PossessiveOpponentAt(s, n) # ""})
    IN  IF i = 0 THEN "" ELSE PossessiveOpponentAt(s, i)
OrganisationOpponent(s) ==
    LET i == LeastIn({n \in 1..Len(s) : OrganisationOpponentAt(s, n) # ""})
    IN  IF i = 0 THEN "" ELSE OrganisationOpponentAt(s, i)
AgainstOpponent(s) ==
    LET i == LeastIn({n \in 1..Len(s) : AgainstOpponentAt(s, n) # ""})
    IN  IF i = 0 THEN "" ELSE AgainstOpponentAt(s, i)

\* match[1].charAt(0).toUpperCase() + match[1].slice(1)
CapitalizeFirst(w) == UpperChar(CharAt(w, 1)) \o SubSeq(w, 2, Len(w))

extractParteien(text) ==
    LET klaeger == IF Includes(text, "ich") \/ Includes(text, "mein") \/ Includes(text, "mir")
                   THEN "Mandant" ELSE Undefined
        m1 == PossessiveOpponent(text)
        m2 == OrganisationOpponent(text)
        m3 == AgainstOpponent(text)
        beklagter == IF m1 # "" THEN CapitalizeFirst(m1)
                     ELSE IF m2 # "" THEN CapitalizeFirst(m2)
                     ELSE IF m3 # "" THEN CapitalizeFirst(m3)
                     ELSE Undefined
    IN  [klaeger |-> klaeger, beklagter |-> beklagter]

\* the timeline entries of one message: one per date token, each with the
\* text around the FIRST occurrence of that token in the message
MessageTimeline(content) ==
    LET dates == DateMatches(content)
    IN  [k \in 1..Len(dates) |->
            LET index == IndexOf(content, dates[k]) - 1
            IN  [ datum |-> dates[k],
                  ereignis |-> Trim(Substring(content, Max(0, index - 50),
                                              Min(Len(content), index + 100))),
                  dokumentId |-> Undefined ]]

\* the timeline entry of one document: its first date token only
DocumentTimeline(doc) ==
    IF ~Truthy(doc.extracted_text) THEN <<>>
    ELSE LET dates == DateMatches(doc.extracted_text)
         IN  IF Len(dates) > 0
             THEN << [ datum |-> dates[1],
                       ereignis |-> "Datum aus Dokument \"" \o doc.file_name \o "\"",
                       dokumentId |-> doc.id ] >>
             ELSE <<>>

\* the loop over the messages: the entries of every message, in order
RECURSIVE MessagesTimeline(_)
MessagesTimeline(msgs) ==
    IF Len(msgs) = 0 THEN <<>>
    ELSE MessageTimeline(Head(msgs).content) \o MessagesTimeline(Tail(msgs))

\* the loop over the documents
RECURSIVE DocumentsTimeline(_)
DocumentsTimeline(docs) ==
    IF Len(docs) = 0 THEN <<>>
    ELSE DocumentTimeline(Head(docs)) \o DocumentsTimeline(Tail(docs))

extractTimeline(msgs, docs) ==
    MessagesTimeline(msgs) \o DocumentsTimeline(docs)

\* (local names differ from those of extractCaseData: TLC evaluates LET
\* definitions lazily and must not meet the caller's names again)
extractProblemDefinition(msgs) ==
    LET users == FilterRole(msgs, "user")
    IN  IF Len(users) = 0 THEN Undefined
        ELSE IF Len(users[1].content) > 50
             THEN Substring(users[1].content, 0, 500)
             ELSE Substring(Join(Contents(SubSeq(users, 1, Min(3, Len(users)))), " "),
                            0, 500)

detectUrgency(text) ==
    IF SomeIncluded(text, URGENCY_KEYWORDS.high) THEN "high"
    ELSE IF SomeIncluded(text, URGENCY_KEYWORDS.medium) THEN "medium"
    ELSE "low"

\* a match of one of the three deadline patterns at position i:
\*   1  /frist\s+(?:bis\s+)?(?:zum\s+)?(DATE)/gi
\*   2  /bis\s+(?:zum\s+)?(DATE)\s+(?:muss|müssen)/gi
\*   3  /(?:einspruch|widerspruch|antwort)\s+bis\s+(DATE)/gi
\* as [len |-> length of the whole match (0: none), datum |-> the captured date]
NoMatch == [len |-> 0, datum |-> ""]
DateCapture(s, i, dateAt, endAt) ==
    [len |-> endAt - i, datum |-> SubSeq(s, dateAt, dateAt + DateLenAt(s, dateAt) - 1)]

FristPatternAt(s, i) ==
    IF ~StartsAt(s, i, "frist") \/ AfterSpaces(s, i + 5) = 0 THEN NoMatch
    ELSE LET d == AfterOptionalWord(s, AfterOptionalWord(s, AfterSpaces(s, i + 5), "bis"), "zum")
         IN  IF DateLenAt(s, d) = 0 THEN NoMatch
             ELSE DateCapture(s, i, d, d + DateLenAt(s, d))

BisMussPatternAt(s, i) ==
    IF ~StartsAt(s, i, "bis") \/ AfterSpaces(s, i + 3) = 0 THEN NoMatch
    ELSE LET d == AfterOptionalWord(s, AfterSpaces(s, i + 3), "zum")
             m == AfterSpaces(s, d + DateLenAt(s, d))
             w == AlternativeAt(s, m, <<"muss", "müssen">>)
         IN  IF DateLenAt(s, d) = 0 \/ m = 0 \/ w = "" THEN NoMatch
             ELSE DateCapture(s, i, d, m + Len(w))

EinspruchPatternAt(s, i) ==
    LET w == AlternativeAt(s, i, <<"einspruch", "widerspruch", "antwort">>)
        b == AfterSpaces(s, i + Len(w))
        d == AfterSpaces(s, b + 3)
    IN  IF w = "" \/ b = 0 \/ ~StartsAt(s, b, "bis") \/ d = 0 \/ DateLenAt(s, d) = 0
        THEN NoMatch
        ELSE DateCapture(s, i, d, d + DateLenAt(s, d))

DeadlinePatternAt(p, s, i) ==
    IF p = 1 THEN FristPatternAt(s, i)
    ELSE IF p = 2 THEN BisMussPatternAt(s, i)
    ELSE EinspruchPatternAt(s, i)

\* the while loop of pattern.exec(text) for pattern p, resuming at position i
RECURSIVE ScanDeadlines(_, _, _)
ScanDeadlines(p, text, i) ==
    LET at == LeastIn({n \in i..Len(text) : DeadlinePatternAt(p, text, n).len > 0})
        found == DeadlinePatternAt(p, text, at)
    IN  IF at = 0 THEN <<>>
        ELSE << [ datum |-> found.datum,
                  beschreibung |-> Trim(Substring(text, Max(0, at - 1 - 30),
                                                  Min(Len(text), at - 1 + found.len + 30))),
                  kritisch |-> Includes(text, "frist") \/ Includes(text, "einspruch") ] >>
             \o ScanDeadlines(p, text, at + found.len)

extractDeadlines(text) ==
    ScanDeadlines(1, text, 1) \o ScanDeadlines(2, text, 1) \o ScanDeadlines(3, text, 1)

\* documents.map(d => ({id, name, beschreibung: first 200 characters}))
DocumentList(docs) ==
    [k \in 1..Len(docs) |->
        [ id |-> docs[k].id,
          name |-> IF Truthy(docs[k].file_name) THEN docs[k].file_name
                   ELSE "Unbekanntes Dokument",
          beschreibung |-> IF docs[k].extracted_text = Undefined THEN Undefined
                           ELSE Substring(docs[k].extracted_text, 0, 200) ]]

\* the questions asked for missing fields
QuestionRechtsgebiet == "Um welche Art von Rechtsproblem handelt es sich?"
QuestionParteien == "Wer sind die beteiligten Parteien (Sie und die Gegenseite)?"
QuestionTimeline == "Können Sie den zeitlichen Ablauf der Ereignisse beschreiben?"
QuestionFristen == "Gibt es eine Frist oder ein wichtiges Datum?"

\* the field confidences, in percent
ConfidenceRechtsgebiet == 80
ConfidenceParteienBoth == 70
ConfidenceParteienPartial == 30
ConfidenceTimeline == 60
ConfidenceProblemdefinition == 70
ConfidenceDeadlines == 80
\* confidenceValues.length
ConfidenceFields == 5
\* suggestedQuestions.slice(0, 2)
MaxSuggestedQuestions == 2

\* the text the extractor searches: the user messages and the document texts,
\* joined by newlines and lower-cased
AllText(msgs, docs) ==
    ToLowerCase(Join(Contents(FilterRole(msgs, "user"))
                     \o [k \in 1..Len(docs) |->
                            IF Truthy(docs[k].extracted_text)
                            THEN docs[k].extracted_text ELSE ""],
                     "\n"))

\* the result object of extractCaseData, from the fields it has extracted
ExtractionResult(area, parties, events, problem, fristen, urgency, dokumente) ==
    LET bothParties == Truthy(parties.klaeger) /\ Truthy(parties.beklagter)
        conf ==
            [ rechtsgebiet |-> IF Truthy(area) THEN ConfidenceRechtsgebiet ELSE 0,
              parteien |-> IF bothParties THEN ConfidenceParteienBoth
                           ELSE ConfidenceParteienPartial,
              timeline |-> IF Len(events) > 0 THEN ConfidenceTimeline ELSE 0,
              problemdefinition |-> IF Truthy(problem)
                                    THEN ConfidenceProblemdefinition ELSE 0,
              deadlines |-> IF Len(fristen) > 0 THEN ConfidenceDeadlines ELSE 0 ]
        missing ==
            (IF ~Truthy(area) THEN <<"Rechtsgebiet">> ELSE <<>>)
            \o (IF ~bothParties THEN <<"Parteien">> ELSE <<>>)
            \o (IF Len(events) = 0 THEN <<"Timeline">> ELSE <<>>)
            \o (IF ~Truthy(problem) THEN <<"Problemdefinition">> ELSE <<>>)
            \o (IF Len(fristen) = 0 THEN <<"Fristen">> ELSE <<>>)
        questions ==
            (IF ~Truthy(area) THEN <<QuestionRechtsgebiet>> ELSE <<>>)
            \o (IF ~bothParties THEN <<QuestionParteien>> ELSE <<>>)
            \o (IF Len(events) = 0 THEN <<QuestionTimeline>> ELSE <<>>)
            \o (IF Len(fristen) = 0 THEN <<QuestionFristen>> ELSE <<>>)
    IN  [ data |-> [ rechtsgebiet |-> area,
                     parteien |-> parties,
                     timeline |-> events,
                     problemdefinition |-> problem,
                     dringlichkeit |-> urgency,
                     deadlines |-> fristen,
                     dokumente |-> dokumente ],
          confidence |->
              [ overall |-> (conf.rechtsgebiet + conf.parteien
                             + conf.timeline + conf.problemdefinition
                             + conf.deadlines) \div ConfidenceFields ]
              @@ conf,
          missingFields |-> missing,
          suggestedQuestions |->
              SubSeq(questions, 1, Min(MaxSuggestedQuestions, Len(questions))) ]

\* the extractions of extractCaseData over the joined text allText
ExtractFrom(userMessages, documents, allText) ==
    ExtractionResult(detectRechtsgebiet(allText),
                     extractParteien(allText),
                     extractTimeline(userMessages, documents),
                     extractProblemDefinition(userMessages),
                     extractDeadlines(allText),
                     detectUrgency(allText),
                     DocumentList(documents))

\* what the user may write
CaseDescription == "Mein Vermieter hat gekündigt, Frist bis 15.03.2024"
Greeting == "hallo"
ConsentText == "ja, ich stimme zu"
RefusalText == "nein"
HesitantText == "ja, aber nicht sofort"
PersonDataText == "Mein Name ist Anna Schmidt, anna@example.de"
NameOnlyText == "Anna Schmidt"
UserTexts ==
    {CaseDescription, Greeting, ConsentText, RefusalText, HesitantText, PersonDataText,
     NameOnlyText}

\* the transcripts of user messages over these texts
UserTranscripts ==
    UNION {[1..n -> {Message("user", text) : text \in UserTexts}] : n \in 0..MaxUserMessages}

\* what the user writes in the chat requests
SignedConsentText == "Ja, ich stimme zu. " \o PersonDataText
ChatTexts == {Greeting, ConsentText, RefusalText, PersonDataText, SignedConsentText}
\* the file of a chat request
UploadName == "mietvertrag.pdf"
\* a row id that is null
NoId == 0

\* the rows saveDocument and saveMessage add for the files of a chat request
UploadedDocuments(files, known) ==
    [k \in 1..Len(files) |->
        [ id |-> Len(known) + k,
          file_name |-> files[k].fileName,
          extracted_text |-> Undefined,
          linked_case_id |-> NoId ]]
UploadContent(fileName) == "[Dokument hochgeladen: " \o fileName \o "]"
UploadMessages(files) ==
    [k \in 1..Len(files) |-> Message("user", UploadContent(files[k].fileName))]

\* the columns of the documents that the extractors read, and the documents a
\* conversation can have
ExtractedColumns(documents) ==
    [k \in 1..Len(documents) |->
        Document(documents[k].id, documents[k].file_name, documents[k].extracted_text)]
DocumentLists ==
    {[k \in 1..n |-> Document(k, UploadName, Undefined)] : n \in 0..MaxDocuments}

\* the user messages the chat requests can store
CountOf(seq, content) == Cardinality({k \in 1..Len(seq) : seq[k].content = content})
ChatTranscripts ==
    { transcript \in
          UNION {[1..n -> {Message("user", text) :
                              text \in ChatTexts \cup {UploadContent(UploadName)}}] :
                     n \in 0..(MaxTurns + MaxDocuments)} :
        /\ CountOf(transcript, UploadContent(UploadName)) <= MaxDocuments
        /\ Len(transcript) - CountOf(transcript, UploadContent(UploadName)) <= MaxTurns }

\* what the user writes in a dialogue of turns: the case is described in at
\* most one message and the user greets in at most one; every other message
\* is the short affirmation
AffirmText == "ja"
TurnTexts == {CaseDescription, Greeting, AffirmText}
OncePerDialogue == {CaseDescription, Greeting}
TurnTranscripts ==
    { transcript \in
          UNION {[1..n -> {Message("user", text) : text \in TurnTexts}] :
                     n \in 0..MaxIntakeTurns} :
        \A text \in OncePerDialogue : CountOf(transcript, text) <= 1 }

\* extractCaseData is a pure function of the user messages and the documents:
\* its results are computed once for the transcripts of the model, without
\* documents and with those of the conversation, and looked up afterwards (@@
\* turns the function into an explicit table)
Extractions ==
    [input \in (UserTranscripts \X {<<>>}) \cup (TurnTranscripts \X {<<>>})
                  \cup (ChatTranscripts \X DocumentLists) |->
        ExtractFrom(input[1], input[2], AllText(input[1], input[2]))] @@ <<>>

\* missingFields kept in module scope instead of inside the function: the
\* entries pushed by the previous call are still in the array
extractCaseDataSharedFields(messages, documents) ==
    IF Len(returned.calls) = 0
    THEN Extractions[<<FilterRole(messages, "user"), ExtractedColumns(documents)>>]
    ELSE [Extractions[<<FilterRole(messages, "user"), ExtractedColumns(documents)>>]
            EXCEPT !.missingFields =
                       returned.calls[Len(returned.calls)].result.missingFields \o @]

extractCaseData(messages, documents) ==
    Extractions[<<FilterRole(messages, "user"), ExtractedColumns(documents)>>]

\* createCaseSummary(data): the human-readable summary, one part per field
\* that is present
createCaseSummary(data) ==
    LET parteienStr ==
            (IF Truthy(data.parteien.klaeger)
             THEN <<"Mandant: " \o data.parteien.klaeger>> ELSE <<>>)
            \o (IF Truthy(data.parteien.beklagter)
                THEN <<"Gegenseite: " \o data.parteien.beklagter>> ELSE <<>>)
        timelineStr ==
            [k \in 1..Len(data.timeline) |->
                "- " \o (IF Truthy(data.timeline[k].datum)
                         THEN data.timeline[k].datum ELSE "Ohne Datum")
                \o ": " \o data.timeline[k].ereignis]
        deadlinesStr ==
            [k \in 1..Len(data.deadlines) |->
                "- " \o data.deadlines[k].datum \o ": "
                \o data.deadlines[k].beschreibung
                \o (IF data.deadlines[k].kritisch THEN " ⚠" ELSE "")]
        docsStr == [k \in 1..Len(data.dokumente) |-> "- " \o data.dokumente[k].name]
        urgencyMap == [low |-> "Niedrig", medium |-> "Mittel", high |-> "Hoch"]
    IN  Join((IF Truthy(data.rechtsgebiet)
              THEN <<"**Rechtsgebiet:** " \o data.rechtsgebiet>> ELSE <<>>)
             \o (IF Len(parteienStr) > 0
                 THEN <<"**Parteien:** " \o Join(parteienStr, ", ")>> ELSE <<>>)
             \o (IF Truthy(data.problemdefinition)
                 THEN <<"**Sachverhalt:** " \o data.problemdefinition>> ELSE <<>>)
             \o (IF Len(data.timeline) > 0
                 THEN <<"**Chronologie:**\n" \o Join(timelineStr, "\n")>> ELSE <<>>)
             \o (IF Len(data.deadlines) > 0
                 THEN <<"**Fristen:**\n" \o Join(deadlinesStr, "\n")>> ELSE <<>>)
             \o (IF Len(data.dokumente) > 0
                 THEN <<"**Dokumente:**\n" \o Join(docsStr, "\n")>> ELSE <<>>)
             \o (IF Truthy(data.dringlichkeit)
                 THEN <<"**Dringlichkeit:** " \o urgencyMap[data.dringlichkeit]>>
                 ELSE <<>>),
             "\n\n")

(***************************************************************************)
(* The person extractor (utils/personExtractor).                           *)
(***************************************************************************)
\* the character classes of the e-mail pattern
IsEmailLocalChar(c) ==
    c \in AsciiUpperSet \cup AsciiLowerSet \cup Digits \cup {".", "_", "%", "+", "-"}
IsEmailDomainChar(c) == c \in AsciiUpperSet \cup AsciiLowerSet \cup Digits \cup {".", "-"}
IsAsciiLetter(c) == c \in AsciiUpperSet \cup AsciiLowerSet

\* the position after the longest run, from position i, of characters of a
\* class (0 when i lies beyond the end of the string)
RunEnd(s, i, InClass(_)) ==
    LET RECURSIVE End(_)
        End(n) == IF InClass(CharAt(s, n)) THEN End(n + 1) ELSE n
    IN  IF i > Len(s) + 1 THEN 0 ELSE End(i)

\* /[a-zA-Z0-9._%+-]+@[a-zA-Z0-9.-]+\.[a-zA-Z]{2,}/ matching at position i: the
\* position after the match, 0 when there is none.  The local part runs up to
\* the @; the domain is as long as possible, so the last dot of the run that
\* is followed by two letters ends it.
EmailEndAt(s, i) ==
    LET at == RunEnd(s, i, IsEmailLocalChar)
        domainEnd == RunEnd(s, at + 1, IsEmailDomainChar)
        dots == {d \in (at + 2)..(domainEnd - 1) :
                     /\ CharAt(s, d) = "."
                     /\ RunEnd(s, d + 1, IsAsciiLetter) >= d + 3}
    IN  IF at > i /\ CharAt(s, at) = "@" /\ dots # {}
        THEN RunEnd(s, (CHOOSE d \in dots : \A e \in dots : e <= d) + 1, IsAsciiLetter)
        ELSE 0

extractEmail(text) ==
    LET start == LeastIn({i \in 1..Len(text) : EmailEndAt(text, i) > 0})
    IN  IF start = 0 THEN Undefined
        ELSE SubSeq(text, start, EmailEndAt(text, start) - 1)

\* str.split(/\s+/): the maximal runs of non-space characters (an empty first
\* or last piece only arises from leading or trailing spaces, which every
\* caller has trimmed away)
RECURSIVE SplitWords(_)
SplitWords(str) ==
    LET from == SkipSpaces(str, 1)
        to == LeastIn({n \in from..(Len(str) + 1) : n > Len(str) \/ IsSpace(CharAt(str, n))})
    IN  IF from > Len(str) THEN <<>>
        ELSE <<SubSeq(str, from, to - 1)>> \o SplitWords(SubSeq(str, to, Len(str)))

\* text.split('\n')
RECURSIVE SplitLines(_)
SplitLines(text) ==
    LET nl == IndexOf(text, "\n")
    IN  IF nl = 0 THEN <<text>>
        ELSE <<SubSeq(text, 1, nl - 1)>> \o SplitLines(SubSeq(text, nl + 1, Len(text)))

capitalizeWords(str) ==
    LET words == SplitWords(str)
    IN  Join([k \in 1..Len(words) |->
                 ToUpperCase(CharAt(words[k], 1))
                 \o ToLowerCase(SubSeq(words[k], 2, Len(words[k])))], " ")

\* ([A-Za-zÄÖÜäöüß]+(?:\s+[A-Za-zÄÖÜäöüß]+)*) from position i: the position
\* after the last word of the capture, 0 when no word starts at i
RECURSIVE WordsEnd(_, _)
WordsEnd(s, i) ==
    LET e == RunEnd(s, i, IsLetter)
        next == AfterSpaces(s, e)
    IN  IF e = i THEN 0
        ELSE IF next > 0 /\ IsLetter(CharAt(s, next)) THEN WordsEnd(s, next)
        ELSE e

\* the number of words captured between positions i and e
WordCount(s, i, e) == Len(SplitWords(SubSeq(s, i, e - 1)))

\* (?:mein name ist|ich heiße|ich bin|name:|name\s+ist)\s* at position i of the
\* text (lower is its lower-case form, the pattern being case-insensitive):
\* the position where the capture starts, 0 when no alternative matches
IntroducedNameAt(lower, i) ==
    LET word == AlternativeAt(lower, i, <<"mein name ist", "ich heiße", "ich bin", "name:">>)
        fixed == IF word = "" THEN 0 ELSE i + Len(word)
        nameIst == IF StartsAt(lower, i, "name") /\ AfterSpaces(lower, i + 4) > 0
                      /\ StartsAt(lower, AfterSpaces(lower, i + 4), "ist")
                   THEN AfterSpaces(lower, i + 4) + 3 ELSE 0
        after == IF fixed > 0 THEN fixed ELSE nameIst
    IN  IF after > 0 /\ IsLetter(CharAt(lower, SkipSpaces(lower, after)))
        THEN SkipSpaces(lower, after) ELSE 0

\* [,\s]* from position i
RECURSIVE SkipCommasAndSpaces(_, _)
SkipCommasAndSpaces(s, i) ==
    IF CharAt(s, i) = "," \/ IsSpace(CharAt(s, i))
    THEN SkipCommasAndSpaces(s, i + 1) ELSE i

\* (?:mit freundlichen grüßen|grüße|viele grüße)[,\s]*(two or more words)
SignedNameAt(lower, i) ==
    LET word == AlternativeAt(lower, i, <<"mit freundlichen grüßen", "grüße", "viele grüße">>)
        from == SkipCommasAndSpaces(lower, i + Len(word))
    IN  IF word # "" /\ WordsEnd(lower, from) > 0
           /\ WordCount(lower, from, WordsEnd(lower, from)) >= 2
        THEN from ELSE 0

nonNameWords ==
    << "yes", "no", "ja", "nein", "ok", "okay", "private", "privat", "company", "firma",
       "email", "phone", "telefon", "hallo", "hello", "hi", "danke", "thanks", "bitte",
       "mit freundlichen", "viele grüße", "beste grüße", "mfg", "lg" >>

\* a line that could be a name: 1 to 4 alphabetic words, no @, no digit, none
\* of the words that are not names
LooksLikeName(line) ==
    LET trimmed == Trim(line)
        words == SplitWords(trimmed)
    IN  /\ trimmed # ""
        /\ ~Includes(trimmed, "@")
        /\ \A k \in 1..Len(trimmed) : ~IsDigit(CharAt(trimmed, k))
        /\ ~SomeIncluded(ToLowerCase(trimmed), nonNameWords)
        /\ Len(words) >= 1 /\ Len(words) <= 4
        /\ \A k \in 1..Len(words) :
               \A c \in 1..Len(words[k]) : IsLetter(CharAt(words[k], c))

extractName(text) ==
    LET lower == ToLowerCase(text)
        introduced == LeastIn({i \in 1..Len(text) : IntroducedNameAt(lower, i) > 0})
        signed == LeastIn({i \in 1..Len(text) : SignedNameAt(lower, i) > 0})
        lines == SplitLines(text)
        nameLine == LeastIn({k \in 1..Len(lines) : LooksLikeName(lines[k])})
    IN  IF introduced > 0
        THEN capitalizeWords(Trim(SubSeq(text, IntroducedNameAt(lower, introduced),
                                         WordsEnd(text, IntroducedNameAt(lower, introduced)) - 1)))
        ELSE IF signed > 0
        THEN capitalizeWords(Trim(SubSeq(text, SignedNameAt(lower, signed),
                                         WordsEnd(text, SignedNameAt(lower, signed)) - 1)))
        ELSE IF nameLine > 0 THEN capitalizeWords(Trim(lines[nameLine]))
        ELSE Undefined

detectClientType(text) ==
    LET lowerText == ToLowerCase(text)
    IN  IF SomeIncluded(lowerText, <<"privat", "privatperson", "persönlich", "als privatperson">>)
        THEN "private"
        ELSE IF SomeIncluded(lowerText,
                    << "firma", "unternehmen", "gmbh", "ag", "ohg", "kg", "ug",
                       "geschäftsführer", "geschäftlich", "betrieb", "gesellschaft",
                       "konzern", "holding", "gbr", "e.v.", "verein" >>)
        THEN "company"
        ELSE "private"

\* extractPersonData(messages); the optional columns phone_number,
\* company_name, location and preferred_contact_method are not represented
ExtractPersonFrom(allUserText) ==
    [ email |-> extractEmail(allUserText),
      full_name |-> extractName(allUserText),
      client_type |-> detectClientType(allUserText) ]

\* extractPersonData is a pure function of the user messages: its results are
\* computed once for the transcripts of the chat requests and looked up
\* afterwards
PersonExtractions ==
    [userMessages \in ChatTranscripts |->
        ExtractPersonFrom(Join(Contents(userMessages), "\n"))] @@ <<>>

extractPersonData(messages) == PersonExtractions[FilterRole(messages, "user")]

isPersonDataComplete(data) == Truthy(data.full_name) /\ Truthy(data.email)

(***************************************************************************)
(* The intake state machine (utils/intakeLogic).                           *)
(***************************************************************************)
\* enum IntakePhase
FREE_TEXT == 1
AUTOMATIC_EXTRACTION == 2
TARGETED_QUESTIONS == 3
DEADLINES_URGENCY == 4
CASE_FILE_GENERATION == 5
PERSON_DATA == 6
CONSENT == 7

IntakePhase ==
    { FREE_TEXT, AUTOMATIC_EXTRACTION, TARGETED_QUESTIONS, DEADLINES_URGENCY,
      CASE_FILE_GENERATION, PERSON_DATA, CONSENT }

\* the confidence threshold 0.6, in percent
CONFIDENCE_THRESHOLD == 60
MIN_MESSAGES_FOR_EXTRACTION == 2
\* assistantMessages.length >= 6 forces the case file
AssistantMessagesForCaseFile == 6

\* the extractedData of a fresh state is the empty object {}
EmptyExtractedData == <<>>

createInitialIntakeState ==
    [ phase |-> FREE_TEXT,
      extractedData |-> EmptyExtractedData,
      confidence |-> 0,
      intakeComplete |-> FALSE,
      personDataRequested |-> FALSE,
      consentGiven |-> FALSE,
      deadlinesAsked |-> FALSE,
      questionsAsked |-> <<>> ]

detectForwardRequest(text) ==
    SomeIncluded(text, <<"ja", "anwalt", "anwältin", "weiterleiten",
                         "weitergeben", "gerne">>)

detectConsentIntent(text) ==
    SomeIncluded(text, <<"zustimm", "einverstanden", "ok", "ja", "genehmig">>)

\* /[A-ZÄÖÜ][a-zäöüß]+\s+[A-ZÄÖÜ][a-zäöüß]+/ matching at position i
CapitalizedWordEnd(s, i) ==
    IF CharAt(s, i) \in UpperSet /\ CharAt(s, i + 1) \in LowerSet
    THEN LeastIn({n \in (i + 2)..(Len(s) + 1) : CharAt(s, n) \notin LowerSet})
    ELSE 0

\* the regular expression backtracks over the length of the first word, but a
\* space can only follow the whole run of lower-case letters
TwoCapitalizedWordsAt(s, i) ==
    LET e == CapitalizedWordEnd(s, i)
    IN  e > 0 /\ AfterSpaces(s, e) > 0 /\ CapitalizedWordEnd(s, AfterSpaces(s, e)) > 0

detectPersonDataProvided(text) ==
    LET hasEmail == Includes(text, "@")
        hasName == \E i \in 1..Len(text) : TwoCapitalizedWordsAt(text, i)
    IN  hasEmail \/ hasName

ConsentPositivePatterns ==
    <<"ja", "stimme zu", "einverstanden", "genehmigt", "speichern ja", "zustimmung">>
ConsentNegativePatterns == <<"nein", "nicht", "ablehne", "keine zustimmung">>
ConsentDeniedPatterns ==
    <<"nein", "nicht speichern", "ablehne", "keine zustimmung", "nicht einverstanden">>

\* (variant: the negative patterns are not consulted)
detectConsentGivenAnyPositive(text) ==
    SomeIncluded(text, ConsentPositivePatterns)
detectConsentGiven(text) ==
    LET hasPositive == SomeIncluded(text, ConsentPositivePatterns)
        hasNegative == SomeIncluded(text, ConsentNegativePatterns)
    IN  hasPositive /\ ~hasNegative

detectConsentDenied(text) == SomeIncluded(text, ConsentDeniedPatterns)

\* the prompt generators; a prompt is modelled by its headline and by the
\* parts of it that are computed
generateFreeTextPrompt == "Der Nutzer befindet sich in der FREIEN BESCHREIBUNGSPHASE."

generateExtractionPrompt(extraction) ==
    "AUTOMATISCHE EXTRAKTION abgeschlossen.\nFehlende Felder: "
    \o (IF Len(extraction.missingFields) > 0
        THEN Join(extraction.missingFields, ", ") ELSE "Keine")

generateTargetedQuestionsPrompt(questions) ==
    "GEZIELTE FRAGEN-PHASE.\n" \o Join(questions, "\n")

generateDeadlinesPrompt == "FRISTEN-PHASE."

generateCaseFilePrompt(summary) == "FALLAKTE-GENERIERUNG.\n" \o summary

generateCaseSummaryResponse(extraction) == createCaseSummary(extraction.data)

generatePersonDataPrompt == "PERSONENDATEN-PHASE."

generateConsentPrompt == "EINWILLIGUNGS-PHASE."

generateConsentConfirmationPrompt == "EINWILLIGUNG ERTEILT."

ConsentDeclinedPrompt == "Der Nutzer hat die Einwilligung abgelehnt."

ForwardQuestion ==
    "\n\nNach der Zusammenfassung frage: \"Möchten Sie, dass wir Ihren Fall an eine:n Anwält:in weitergeben?\""

\* the locals of updateIntakeState when the switch is left
Locals(state, systemPromptAddition, suggestedResponse, shouldCreateCase, shouldAskForPersonData, shouldAskForConsent) ==
    [ state |-> state,
      systemPromptAddition |-> systemPromptAddition,
      suggestedResponse |-> suggestedResponse,
      shouldCreateCase |-> shouldCreateCase,
      shouldAskForPersonData |-> shouldAskForPersonData,
      shouldAskForConsent |-> shouldAskForConsent ]

\* case IntakePhase.FREE_TEXT
\* (variant: the comparison with MIN_MESSAGES_FOR_EXTRACTION is strict)
CaseFreeTextStrict(state, userMessages) ==
    Locals(IF Len(userMessages) > MIN_MESSAGES_FOR_EXTRACTION
           THEN [state EXCEPT !.phase = AUTOMATIC_EXTRACTION] ELSE state,
           generateFreeTextPrompt, Undefined, FALSE, FALSE, FALSE)
CaseFreeText(state, userMessages) ==
    Locals(IF Len(userMessages) >= MIN_MESSAGES_FOR_EXTRACTION
           THEN [state EXCEPT !.phase = AUTOMATIC_EXTRACTION] ELSE state,
           generateFreeTextPrompt, Undefined, FALSE, FALSE, FALSE)

\* case IntakePhase.AUTOMATIC_EXTRACTION
\* (variant: the phase is kept while a field is missing)
CaseAutomaticExtractionWaits(state, extraction) ==
    Locals([state EXCEPT !.phase =
                IF Len(extraction.missingFields) > 0 THEN AUTOMATIC_EXTRACTION
                ELSE IF ~state.deadlinesAsked THEN DEADLINES_URGENCY
                ELSE CASE_FILE_GENERATION],
           generateExtractionPrompt(extraction), Undefined, FALSE, FALSE, FALSE)

\* case IntakePhase.AUTOMATIC_EXTRACTION
\* (variant: the targeted questions are entered whether or not a field is missing)
CaseAutomaticExtractionAlwaysAsks(state, extraction) ==
    Locals([state EXCEPT !.phase = TARGETED_QUESTIONS],
           generateExtractionPrompt(extraction), Undefined, FALSE, FALSE, FALSE)
CaseAutomaticExtraction(state, extraction) ==
    Locals([state EXCEPT !.phase =
                IF Len(extraction.missingFields) > 0 THEN TARGETED_QUESTIONS
                ELSE IF ~state.deadlinesAsked THEN DEADLINES_URGENCY
                ELSE CASE_FILE_GENERATION],
           generateExtractionPrompt(extraction), Undefined, FALSE, FALSE, FALSE)

\* case IntakePhase.TARGETED_QUESTIONS
\* (variant: the phase is kept as long as the confidence is low)
CaseTargetedQuestionsInsists(state, extraction) ==
    IF extraction.confidence.overall < CONFIDENCE_THRESHOLD
    THEN Locals(state,
                generateTargetedQuestionsPrompt(extraction.suggestedQuestions),
                Undefined, FALSE, FALSE, FALSE)
    ELSE Locals([state EXCEPT !.phase =
                    IF ~state.deadlinesAsked THEN DEADLINES_URGENCY
                    ELSE CASE_FILE_GENERATION],
                Undefined, Undefined, FALSE, FALSE, FALSE)

\* case IntakePhase.TARGETED_QUESTIONS
\* (variant: the suggested questions are asked whether or not they were asked)
CaseTargetedQuestionsAsksAgain(state, extraction) ==
    IF Len(extraction.suggestedQuestions) > 0
       /\ extraction.confidence.overall < CONFIDENCE_THRESHOLD
    THEN Locals([state EXCEPT !.questionsAsked =
                     @ \o SubSeq(extraction.suggestedQuestions, 1,
                                 Min(2, Len(extraction.suggestedQuestions)))],
                generateTargetedQuestionsPrompt(
                    SubSeq(extraction.suggestedQuestions, 1,
                           Min(2, Len(extraction.suggestedQuestions)))),
                Undefined, FALSE, FALSE, FALSE)
    ELSE Locals([state EXCEPT !.phase =
                    IF ~state.deadlinesAsked THEN DEADLINES_URGENCY
                    ELSE CASE_FILE_GENERATION],
                Undefined, Undefined, FALSE, FALSE, FALSE)

\* case IntakePhase.TARGETED_QUESTIONS
CaseTargetedQuestions(state, extraction) ==
    LET availableQuestions ==
            SelectSeq(extraction.suggestedQuestions,
                      LAMBDA q : \A k \in 1..Len(state.questionsAsked) :
                                     state.questionsAsked[k] # q)
        firstTwo == SubSeq(availableQuestions, 1, Min(2, Len(availableQuestions)))
    IN  IF Len(availableQuestions) > 0
           /\ extraction.confidence.overall < CONFIDENCE_THRESHOLD
        THEN Locals([state EXCEPT !.questionsAsked = @ \o firstTwo],
                    generateTargetedQuestionsPrompt(firstTwo),
                    Undefined, FALSE, FALSE, FALSE)
        ELSE Locals([state EXCEPT !.phase =
                        IF ~state.deadlinesAsked THEN DEADLINES_URGENCY
                        ELSE CASE_FILE_GENERATION],
                    Undefined, Undefined, FALSE, FALSE, FALSE)

\* case IntakePhase.DEADLINES_URGENCY
\* (variant: the questions are asked again by the call that moves on)
CaseDeadlinesUrgencyAsksAgain(state) ==
    IF ~state.deadlinesAsked
    THEN Locals([state EXCEPT !.deadlinesAsked = TRUE],
                generateDeadlinesPrompt, Undefined, FALSE, FALSE, FALSE)
    ELSE Locals([state EXCEPT !.phase = CASE_FILE_GENERATION],
                generateDeadlinesPrompt, Undefined, FALSE, FALSE, FALSE)

CaseDeadlinesUrgency(state) ==
    IF ~state.deadlinesAsked
    THEN Locals([state EXCEPT !.deadlinesAsked = TRUE],
                generateDeadlinesPrompt, Undefined, FALSE, FALSE, FALSE)
    ELSE Locals([state EXCEPT !.phase = CASE_FILE_GENERATION],
                Undefined, Undefined, FALSE, FALSE, FALSE)

\* case IntakePhase.CASE_FILE_GENERATION
\* (variant: the number of assistant messages is not consulted)
CaseCaseFileGenerationByConfidence(state, extraction, assistantMessages, lastUserContent) ==
    IF extraction.confidence.overall >= CONFIDENCE_THRESHOLD
    THEN IF detectForwardRequest(lastUserContent)
         THEN Locals([state EXCEPT !.intakeComplete = TRUE, !.phase = PERSON_DATA],
                     generateCaseFilePrompt(createCaseSummary(extraction.data)),
                     generateCaseSummaryResponse(extraction),
                     FALSE, TRUE, FALSE)
         ELSE Locals([state EXCEPT !.intakeComplete = TRUE],
                     generateCaseFilePrompt(createCaseSummary(extraction.data))
                         \o ForwardQuestion,
                     generateCaseSummaryResponse(extraction),
                     FALSE, FALSE, FALSE)
    ELSE Locals([state EXCEPT !.phase = TARGETED_QUESTIONS],
                Undefined, Undefined, FALSE, FALSE, FALSE)

\* case IntakePhase.CASE_FILE_GENERATION
\* (variant: going back to the targeted questions forgets the questions asked)
CaseCaseFileGenerationAsksAfresh(state, extraction, assistantMessages, lastUserContent) ==
    IF extraction.confidence.overall >= CONFIDENCE_THRESHOLD
       \/ Len(assistantMessages) >= AssistantMessagesForCaseFile
    THEN IF detectForwardRequest(lastUserContent)
         THEN Locals([state EXCEPT !.intakeComplete = TRUE, !.phase = PERSON_DATA],
                     generateCaseFilePrompt(createCaseSummary(extraction.data)),
                     generateCaseSummaryResponse(extraction),
                     FALSE, TRUE, FALSE)
         ELSE Locals([state EXCEPT !.intakeComplete = TRUE],
                     generateCaseFilePrompt(createCaseSummary(extraction.data))
                         \o ForwardQuestion,
                     generateCaseSummaryResponse(extraction),
                     FALSE, FALSE, FALSE)
    ELSE Locals([state EXCEPT !.phase = TARGETED_QUESTIONS, !.questionsAsked = <<>>],
                Undefined, Undefined, FALSE, FALSE, FALSE)

\* case IntakePhase.CASE_FILE_GENERATION
\* (variant: with too little confidence the extraction is entered again)
CaseCaseFileGenerationRestarts(state, extraction, assistantMessages, lastUserContent) ==
    IF extraction.confidence.overall >= CONFIDENCE_THRESHOLD
       \/ Len(assistantMessages) >= AssistantMessagesForCaseFile
    THEN Locals([state EXCEPT !.intakeComplete = TRUE],
                generateCaseFilePrompt(createCaseSummary(extraction.data)),
                generateCaseSummaryResponse(extraction), FALSE, FALSE, FALSE)
    ELSE Locals([state EXCEPT !.phase = AUTOMATIC_EXTRACTION],
                Undefined, Undefined, FALSE, FALSE, FALSE)
CaseCaseFileGeneration(state, extraction, assistantMessages, lastUserContent) ==
    IF extraction.confidence.overall >= CONFIDENCE_THRESHOLD
       \/ Len(assistantMessages) >= AssistantMessagesForCaseFile
    THEN LET summary == createCaseSummary(extraction.data)
         IN  IF detectForwardRequest(lastUserContent)
             THEN Locals([state EXCEPT !.intakeComplete = TRUE, !.phase = PERSON_DATA],
                         generateCaseFilePrompt(summary),
                         generateCaseSummaryResponse(extraction),
                         FALSE, TRUE, FALSE)
             ELSE Locals([state EXCEPT !.intakeComplete = TRUE],
                         generateCaseFilePrompt(summary) \o ForwardQuestion,
                         generateCaseSummaryResponse(extraction),
                         FALSE, FALSE, FALSE)
    ELSE Locals([state EXCEPT !.phase = TARGETED_QUESTIONS],
                Undefined, Undefined, FALSE, FALSE, FALSE)

\* case IntakePhase.PERSON_DATA
CasePersonData(state, lastUserContent) ==
    IF detectConsentIntent(lastUserContent)
    THEN Locals([state EXCEPT !.personDataRequested = TRUE, !.phase = CONSENT],
                Undefined, Undefined, FALSE, FALSE, TRUE)
    ELSE IF detectPersonDataProvided(lastUserContent)
    THEN Locals([state EXCEPT !.personDataRequested = TRUE, !.phase = CONSENT],
                generateConsentPrompt, Undefined, FALSE, FALSE, FALSE)
    ELSE Locals([state EXCEPT !.personDataRequested = TRUE],
                generatePersonDataPrompt, Undefined, FALSE, FALSE, FALSE)

\* case IntakePhase.CONSENT
\* (variant: after a refusal the person data are asked for again)
CaseConsentAsksAgain(state, lastUserContent) ==
    IF detectConsentGiven(lastUserContent)
    THEN Locals([state EXCEPT !.consentGiven = TRUE],
                generateConsentConfirmationPrompt, Undefined, TRUE, FALSE, FALSE)
    ELSE IF detectConsentDenied(lastUserContent)
    THEN Locals([state EXCEPT !.consentGiven = FALSE, !.phase = PERSON_DATA],
                ConsentDeclinedPrompt, Undefined, FALSE, FALSE, FALSE)
    ELSE Locals(state, generateConsentPrompt, Undefined, FALSE, FALSE, TRUE)

\* case IntakePhase.CONSENT
CaseConsent(state, lastUserContent) ==
    IF detectConsentGiven(lastUserContent)
    THEN Locals([state EXCEPT !.consentGiven = TRUE],
                generateConsentConfirmationPrompt, Undefined, TRUE, FALSE, FALSE)
    ELSE IF detectConsentDenied(lastUserContent)
    THEN Locals([state EXCEPT !.consentGiven = FALSE],
                ConsentDeclinedPrompt, Undefined, FALSE, FALSE, FALSE)
    ELSE Locals(state, generateConsentPrompt, Undefined, FALSE, FALSE, TRUE)

\* the return statement of updateIntakeState
\* (variants: the case is created once the intake is complete; the flags of
\* earlier calls are not consulted)
ReturnCreatesWithoutConsent(l) ==
    [l EXCEPT !.shouldCreateCase = l.shouldCreateCase \/ l.state.intakeComplete]
ReturnForgetsEarlierConsent(l) == l
Return(l) ==
    [l EXCEPT !.shouldCreateCase =
        l.shouldCreateCase \/ (l.state.intakeComplete /\ l.state.consentGiven)]

\* the switch over state.phase, entered with the extraction stored in the state
Switch(state, extraction, userMessages, assistantMessages, lastUserContent) ==
    CASE state.phase = FREE_TEXT -> CaseFreeText(state, userMessages)
      [] state.phase = AUTOMATIC_EXTRACTION ->
             CaseAutomaticExtraction(state, extraction)
      [] state.phase = TARGETED_QUESTIONS ->
             CaseTargetedQuestions(state, extraction)
      [] state.phase = DEADLINES_URGENCY -> CaseDeadlinesUrgency(state)
      [] state.phase = CASE_FILE_GENERATION ->
             CaseCaseFileGeneration(state, extraction, assistantMessages,
                                    lastUserContent)
      [] state.phase = PERSON_DATA -> CasePersonData(state, lastUserContent)
      [] state.phase = CONSENT -> CaseConsent(state, lastUserContent)

\* const lastUserContent = lastUserMessage?.content.toLowerCase() || ''
LastUserContent(userMessages) ==
    IF Len(userMessages) > 0
    THEN ToLowerCase(userMessages[Len(userMessages)].content) ELSE ""

\* the body of updateIntakeState once the extraction is performed
UpdateWith(start, extraction, messages) ==
    Return(Switch([start EXCEPT !.extractedData = extraction.data,
                                !.confidence = extraction.confidence.overall],
                  extraction,
                  FilterRole(messages, "user"),
                  FilterRole(messages, "assistant"),
                  LastUserContent(FilterRole(messages, "user"))))

\* updateIntakeState(messages, documents, previousState?): previousState is a
\* sequence of at most one state, empty when the argument is left out
\* const state = previousState || createInitialIntakeState()
StartState(previousState) ==
    IF Len(previousState) > 0 THEN previousState[1] ELSE createInitialIntakeState

updateIntakeState(messages, documents, previousState) ==
    UpdateWith(StartState(previousState),
               extractCaseData(messages, documents),
               messages)

(***************************************************************************)
(* The chat route (app/api/chat/route.ts): consent and person-data checks  *)
(* of the completion callback.                                             *)
(***************************************************************************)
consentPatterns ==
    << "ja, ich stimme zu", "ja ich stimme zu", "stimme zu", "einverstanden",
       "ja, dürfen sie", "ja dürfen sie", "ja, speichern", "ja speichern",
       "ja, weiterleiten", "ja weiterleiten", "ja, weitergeben", "ja weitergeben",
       "ich bin einverstanden", "ich stimme zu", "genehmigt", "zustimmung erteilt",
       "yes", "i agree", "i consent" >>

negativePatterns ==
    <<"nein", "nicht einverstanden", "keine zustimmung", "ablehne", "nicht speichern">>

\* userMessages.slice(-3)
RecentUserMessagesWindow == 3
RecentUserMessages(messages) ==
    LET userMessages == FilterRole(messages, "user")
    IN  SubSeq(userMessages,
               Max(1, Len(userMessages) - RecentUserMessagesWindow + 1),
               Len(userMessages))

\* one message of the loop: a negative pattern skips it, a consent pattern accepts
MatchesConsent(text) ==
    ~SomeIncluded(text, negativePatterns) /\ SomeIncluded(text, consentPatterns)

\* the check is a pure function of the content: its results for the contents of
\* the chat requests are computed once and looked up afterwards
ConsentMessages ==
    {content \in ChatTexts \cup {UploadContent(UploadName)} :
        MatchesConsent(ToLowerCase(content))}

IsConsentMessage(content) ==
    IF content \in ChatTexts \cup {UploadContent(UploadName)}
    THEN content \in ConsentMessages
    ELSE MatchesConsent(ToLowerCase(content))

detectUserConsent(messages) ==
    \E k \in 1..Len(RecentUserMessages(messages)) :
        IsConsentMessage(RecentUserMessages(messages)[k].content)

hasProvidedPersonData(messages) == isPersonDataComplete(extractPersonData(messages))


(***************************************************************************)
(* The validators of the person and case routes (utils/validators).  A     *)
(* boolean of a request body is "true" or "false"; a field that is left    *)
(* out is Undefined.                                                       *)
(***************************************************************************)
\* /^[^\s@]+@[^\s@]+\.[^\s@]+$/
isValidEmail(email) ==
    /\ \A k \in 1..Len(email) : ~IsSpace(CharAt(email, k))
    /\ \E at \in 2..Len(email) :
           /\ CharAt(email, at) = "@"
           /\ \A k \in 1..Len(email) : CharAt(email, k) = "@" => k = at
           /\ \E dot \in (at + 2)..(Len(email) - 1) : CharAt(email, dot) = "."

isValidUrgencyLevel(level) == level \in {"low", "medium", "high"}
isValidClientType(type) == type \in {"private", "company"}
isValidContactMethod(method) == method \in {"email", "phone"}
IsBoolean(value) == value \in {"true", "false"}

(***************************************************************************)
(* Dates.  A calendar date is a record of year, month (1..12) and day; the *)
(* constructor new Date(year, monthIndex, day) builds a local date, and    *)
(* toISOString() prints the UTC date of that instant.                      *)
(***************************************************************************)
DigitString == "0123456789"

\* parseInt(digits, 10) of a run of decimal digits
RECURSIVE ParseInt(_)
ParseInt(digits) ==
    IF Len(digits) = 0 THEN 0
    ELSE 10 * ParseInt(SubSeq(digits, 1, Len(digits) - 1))
         + (IndexOf(DigitString, CharAt(digits, Len(digits))) - 1)

\* String(n).padStart(2, '0') and the four-digit year of toISOString()
Pad2(n) == CharAt(DigitString, (n \div 10) + 1) \o CharAt(DigitString, (n % 10) + 1)
Pad4(n) == Pad2(n \div 100) \o Pad2(n % 100)

IsLeapYear(y) == (y % 4 = 0 /\ y % 100 # 0) \/ y % 400 = 0
DaysInMonth(y, m) ==
    IF m = 2 THEN (IF IsLeapYear(y) THEN 29 ELSE 28)
    ELSE IF m \in {4, 6, 9, 11} THEN 30 ELSE 31

\* MakeDay of the Date constructor: a month outside 1..12 carries into the
\* year, a day outside the month carries into the neighbouring months
RECURSIVE MakeDay(_, _, _)
MakeDay(y, m, d) ==
    IF m < 1 THEN MakeDay(y - 1, m + 12, d)
    ELSE IF m > 12 THEN MakeDay(y + 1, m - 12, d)
    ELSE IF d < 1
         THEN (IF m = 1 THEN MakeDay(y - 1, 12, d + 31)
               ELSE MakeDay(y, m - 1, d + DaysInMonth(y, m - 1)))
    ELSE IF d > DaysInMonth(y, m)
         THEN (IF m = 12 THEN MakeDay(y + 1, 1, d - 31)
               ELSE MakeDay(y, m + 1, d - DaysInMonth(y, m)))
    ELSE [year |-> y, month |-> m, day |-> d]

\* new Date(year, month - 1, day): local midnight of the day; a year of 0..99
\* is taken as 1900 + year
LocalDate(year, month, day) ==
    MakeDay(IF year <= 99 THEN 1900 + year ELSE year, month, day)

\* date.toISOString().split('T')[0] of local midnight: east of UTC
\* (timezoneOffset minutes ahead) the instant lies on the UTC day before
ToISODate(date, timezoneOffset) ==
    IF timezoneOffset > 0
    THEN MakeDay(date.year, date.month, date.day - 1)
    ELSE date
ISOText(date) == Pad4(date.year) \o "-" \o Pad2(date.month) \o "-" \o Pad2(date.day)

\* dateString.match(/^(\d{1,2})\.(\d{1,2})\.(\d{4})$/) with a and b digits in
\* the first two groups: <<day, month, year>> after parseInt, <<>> for no match
GermanDateGroups(s, a, b) ==
    IF /\ a >= 1
       /\ CharAt(s, a + 1) = "."
       /\ b >= 1
       /\ CharAt(s, a + b + 2) = "."
       /\ DigitRun(s, a + b + 3, 4) = 4
       /\ Len(s) = a + b + 6
    THEN << ParseInt(SubSeq(s, 1, a)),
            ParseInt(SubSeq(s, a + 2, a + b + 1)),
            ParseInt(SubSeq(s, a + b + 3, a + b + 6)) >>
    ELSE <<>>
germanDateRegex(s) ==
    GermanDateGroups(s, DigitRun(s, 1, 2), DigitRun(s, DigitRun(s, 1, 2) + 2, 2))

\* the date-only form YYYY-MM-DD of new Date(string): <<year, month, day>>
ISODateGroups(s) ==
    IF /\ Len(s) = 10
       /\ DigitRun(s, 1, 4) = 4
       /\ CharAt(s, 5) = "-"
       /\ DigitRun(s, 6, 2) = 2
       /\ CharAt(s, 8) = "-"
       /\ DigitRun(s, 9, 2) = 2
    THEN << ParseInt(SubSeq(s, 1, 4)), ParseInt(SubSeq(s, 6, 7)),
            ParseInt(SubSeq(s, 9, 10)) >>
    ELSE <<>>

\* !isNaN(new Date(dateString).getTime()) as Node.js answers it: the date-only
\* ISO form with a month of 1..12 and a day of 1..31, or, by the fallback
\* parser, N.N.YYYY read as month.day.year within the same ranges
DateParses(iso, german) ==
    \/ /\ Len(iso) = 3
       /\ iso[2] \in 1..12
       /\ iso[3] \in 1..31
    \/ /\ Len(german) = 3
       /\ german[1] \in 1..12
       /\ german[2] \in 1..31

\* the comparison of getDate(), getMonth() and getFullYear() with the groups
SameComponents(date, groups) ==
    /\ date.day = groups[1]
    /\ date.month = groups[2]
    /\ date.year = groups[3]

isValidDate(dateString) ==
    \/ DateParses(ISODateGroups(dateString), germanDateRegex(dateString))
    \/ /\ Len(germanDateRegex(dateString)) = 3
       /\ SameComponents(LocalDate(germanDateRegex(dateString)[3],
                                   germanDateRegex(dateString)[2],
                                   germanDateRegex(dateString)[1]),
                         germanDateRegex(dateString))

Null == "<null>"

\* the German branch of parseGermanDate on the groups of the match
ParsedGermanDate(groups, timezoneOffset) ==
    ISOText(ToISODate(LocalDate(groups[3], groups[2], groups[1]), timezoneOffset))

\* the ISO branch: a date-only string is UTC midnight, printed back in UTC
ParsedISODate(groups) == ISOText(MakeDay(groups[1], groups[2], groups[3]))

\* parseGermanDate in a process whose local time is timezoneOffset minutes
\* ahead of UTC
parseGermanDate(dateString, timezoneOffset) ==
    IF Len(germanDateRegex(dateString)) = 3
    THEN ParsedGermanDate(germanDateRegex(dateString), timezoneOffset)
    ELSE IF DateParses(ISODateGroups(dateString), <<>>)
    THEN ParsedISODate(ISODateGroups(dateString))
    ELSE Null

\* a numeric field of a request body: the JSON value with its typeof
NoValue == [type |-> "undefined", value |-> 0]
NumberValue(n) == [type |-> "number", value |-> n]
StringValue == [type |-> "string", value |-> 0]

\* a fail-fast result: only the first violated rule is reported
FirstErrorOnly(errors) ==
    [valid |-> Len(errors) = 0, errors |-> SubSeq(errors, 1, 1)]

\* the ValidationResult returned by both validators
ValidationResult(errors) == [valid |-> Len(errors) = 0, errors |-> errors]

validatePersonData(data) ==
    LET errors ==
            (IF ~Truthy(data.full_name) \/ Len(Trim(data.full_name)) < 2
             THEN <<"Name muss mindestens 2 Zeichen haben">> ELSE <<>>)
            \o (IF ~Truthy(data.email) \/ ~isValidEmail(data.email)
                THEN <<"Gültige E-Mail-Adresse erforderlich">> ELSE <<>>)
            \o (IF ~Truthy(data.client_type) \/ ~isValidClientType(data.client_type)
                THEN <<"Mandantentyp muss \"private\" oder \"company\" sein">> ELSE <<>>)
            \o (IF data.client_type = "company"
                   /\ (~Truthy(data.company_name) \/ Len(Trim(data.company_name)) < 2)
                THEN <<"Firmenname erforderlich für Firmenmandanten">> ELSE <<>>)
            \o (IF Truthy(data.preferred_contact_method)
                   /\ ~isValidContactMethod(data.preferred_contact_method)
                THEN <<"Kontaktmethode muss \"email\" oder \"phone\" sein">> ELSE <<>>)
            \o (IF ~IsBoolean(data.consent_share_with_lawyer)
                THEN <<"Zustimmung zur Weitergabe an Anwalt erforderlich">> ELSE <<>>)
    IN  ValidationResult(errors)

validateCaseData(data) ==
    LET errors ==
            (IF ~Truthy(data.conversationId)
             THEN <<"Conversation ID erforderlich">> ELSE <<>>)
            \o (IF Truthy(data.urgencyLevel) /\ ~isValidUrgencyLevel(data.urgencyLevel)
                THEN <<"Dringlichkeit muss \"low\", \"medium\" oder \"high\" sein">>
                ELSE <<>>)
            \o (IF Truthy(data.deadlineDate) /\ ~isValidDate(data.deadlineDate)
                THEN <<"Ungültiges Datumsformat">> ELSE <<>>)
            \o (IF /\ data.estimatedValue.type # "undefined"
                   /\ \/ data.estimatedValue.type # "number"
                      \/ data.estimatedValue.value < 0
                THEN <<"Streitwert muss eine positive Zahl sein">> ELSE <<>>)
    IN  ValidationResult(errors)

(***************************************************************************)
(* The state.  The first group is one intake conversation driven through   *)
(* updateIntakeState with the state object kept between the calls; the     *)
(* second group is the database and the requests in flight of the HTTP     *)
(* handlers.  Spec drives the first group, SpecHandler the second, and     *)
(* SpecFunctions calls the validators, the date parser and the case        *)
(* extractor on their own.                                                 *)
(***************************************************************************)
VARIABLES
    messages,       \* the transcript handed to updateIntakeState
    state,          \* the IntakeState object, mutated in place by every call
    last,           \* the latest call: the state it started from and its result
    calls,          \* the number of calls so far, counted up to MaxCalls
    onlySingle,     \* every call so far saw at most one user message
    allComplete,    \* every call so far saw two or more user messages and a
                    \* complete, confident extraction
    deadlinePrompts, \* the number of calls so far that emitted the deadline
                    \* questions, counted up to MaxCalls
    forwardAsked    \* a call so far has appended the forwarding question to
                    \* the instruction it returned

VARIABLES
    conversation,   \* the row of the conversation in the table conversations
    dbMessages,     \* its rows in messages, by created_at
    dbDocuments,    \* its rows in documents
    persons,        \* the table persons
    cases,          \* the table cases
    streams,        \* the completions in flight, each with the documents its
                    \* callback closes over
    turns,          \* the number of chat requests so far
    requests,       \* the number of person and case requests so far
    intakeRuns,     \* per chat request: the state its updateIntakeState call
                    \* started from and the state it produced
    event,          \* the latest step of a handler and how it ended
    failed          \* the inserts of that step for which the store returned an
                    \* error

intakeVars ==
    <<messages, state, last, calls, onlySingle, allComplete, deadlinePrompts,
      forwardAsked>>

handlerVars ==
    <<conversation, dbMessages, dbDocuments, persons, cases, streams, turns,
      requests, intakeRuns, event, failed>>

pureVars == <<argument, returned>>

vars == <<intakeVars, handlerVars, pureVars>>

UserCount(ofMessages) == Len(FilterRole(ofMessages, "user"))

InitIntake ==
    /\ messages = <<>>
    /\ state = createInitialIntakeState
    /\ last = <<>>
    /\ calls = 0
    /\ onlySingle = TRUE
    /\ allComplete = TRUE
    /\ deadlinePrompts = 0
    /\ forwardAsked = FALSE

\* the user writes a message
SendUser ==
    /\ UserCount(messages) < MaxUserMessages
    /\ \E text \in UserTexts : messages' = Append(messages, Message("user", text))
    /\ last' = <<>>
    /\ UNCHANGED <<state, calls, onlySingle, allComplete, deadlinePrompts, forwardAsked>>
    /\ UNCHANGED <<handlerVars, pureVars>>

\* text.endsWith(suffix)
EndsWith(text, suffix) ==
    /\ Len(text) >= Len(suffix)
    /\ SubSeq(text, Len(text) - Len(suffix) + 1, Len(text)) = suffix

\* the bookkeeping of one call on the transcript sent that returned result;
\* the transcript is replied afterwards
CalledOn(sent, result, replied) ==
    LET data == result.state.extractedData
        complete == /\ UserCount(sent) >= MIN_MESSAGES_FOR_EXTRACTION
                    /\ Truthy(data.rechtsgebiet)
                    /\ Truthy(data.parteien.klaeger) /\ Truthy(data.parteien.beklagter)
                    /\ Len(data.timeline) > 0
                    /\ Truthy(data.problemdefinition)
                    /\ Len(data.deadlines) > 0
                    /\ result.state.confidence >= CONFIDENCE_THRESHOLD
    IN  /\ state' = result.state
        /\ last' = << [ before |-> [ phase |-> state.phase,
                                     intakeComplete |-> state.intakeComplete,
                                     consentGiven |-> state.consentGiven,
                                     deadlinesAsked |-> state.deadlinesAsked,
                                     personDataRequested |-> state.personDataRequested,
                                     questionsAsked |-> state.questionsAsked,
                                     forwardAsked |-> forwardAsked ],
                        users |-> UserCount(sent),
                        assistants |-> Len(FilterRole(sent, "assistant")),
                        lastUserContent |-> LastUserContent(FilterRole(sent, "user")),
                        onlySingleBefore |-> onlySingle,
                        result |-> [result EXCEPT !.state = <<>>] ] >>
        /\ calls' = Min(calls + 1, MaxCalls)
        /\ onlySingle' = (onlySingle /\ UserCount(sent) <= 1)
        /\ allComplete' = (allComplete /\ complete)
        /\ deadlinePrompts' = IF result.systemPromptAddition = generateDeadlinesPrompt
                              THEN Min(deadlinePrompts + 1, MaxCalls)
                              ELSE deadlinePrompts
        /\ forwardAsked' = (forwardAsked
                            \/ EndsWith(result.systemPromptAddition, ForwardQuestion))
        /\ messages' = replied
        /\ UNCHANGED <<handlerVars, pureVars>>

Called(result) == CalledOn(messages, result, messages)

\* one call updateIntakeState(messages, [], state)
Call == Called(updateIntakeState(messages, <<>>, <<state>>))

Next == SendUser \/ Call

\* one turn of a dialogue: the user writes a message, updateIntakeState is
\* called on the kept state, and the assistant's reply is added
ReplyText == "Verstanden."
Turn ==
    /\ UserCount(messages) < MaxIntakeTurns
    /\ \E text \in TurnTexts :
          /\ text \in OncePerDialogue => CountOf(messages, text) = 0
          /\ CalledOn(Append(messages, Message("user", text)),
                      updateIntakeState(Append(messages, Message("user", text)),
                                        <<>>, <<state>>),
                      Append(Append(messages, Message("user", text)),
                             Message("assistant", ReplyText)))

NextTurns == Turn \/ Call

(***************************************************************************)
(* The HTTP handlers over the database.  One conversation, ConversationId, *)
(* is followed; OtherConversationId is an id no conversation has.  Row ids *)
(* are the positions in their tables, 0 standing for null.                 *)
(***************************************************************************)
ConversationId == "c1"
OtherConversationId == "c2"

\* the file lists of a chat request
FileLists == {<<>>, <<[fileName |-> UploadName]>>}
\* the completion texts: none, or an answer
CompletionTexts == {"", "Verstanden."}

InitHandler ==
    /\ conversation = [exists |-> FALSE, status |-> Undefined, person_id |-> NoId]
    /\ dbMessages = <<>>
    /\ dbDocuments = <<>>
    /\ persons = <<>>
    /\ cases = <<>>
    /\ streams = <<>>
    /\ turns = 0
    /\ requests = 0
    /\ intakeRuns = <<>>
    /\ event = [op |-> "none", status |-> 0, text |-> ""]
    /\ failed = {}

\* the fields of an IntakeState that a turn hands to the next
Carried(intakeState) ==
    [ phase |-> intakeState.phase,
      intakeComplete |-> intakeState.intakeComplete,
      consentGiven |-> intakeState.consentGiven,
      deadlinesAsked |-> intakeState.deadlinesAsked,
      questionsAsked |-> intakeState.questionsAsked ]

\* the third argument of the handler's calls updateIntakeState(dbMessages,
\* dbDocuments): it is left out
HandlerPreviousState == <<>>

\* a consent message of the user stands in the stored transcript
ConsentInTranscript(transcript) ==
    \E k \in 1..Len(transcript) :
        transcript[k].role = "user" /\ IsConsentMessage(transcript[k].content)

\* POST /api/chat from the refreshed transcript on: updateIntakeState, and the
\* start of the completion, whose callback closes over the documents
StartCompletion(stored, documents) ==
    /\ Len(documents) <= MaxDocuments
    /\ conversation' = IF conversation.exists THEN conversation
                       ELSE [exists |-> TRUE, status |-> "open", person_id |-> NoId]
    /\ dbMessages' = stored
    /\ dbDocuments' = documents
    /\ intakeRuns' =
           Append(intakeRuns,
                  [ started |-> Carried(StartState(HandlerPreviousState)),
                    produced |-> Carried(updateIntakeState(stored, documents,
                                                           HandlerPreviousState).state) ])
    /\ streams' = Append(streams, [documents |-> documents])
    /\ event' = [op |-> "chat", status |-> 200, text |-> ""]

\* POST /api/chat: the conversation is created if it is new, the user message
\* and the files are stored, the transcript is read again
ChatPost ==
    /\ turns < MaxTurns
    /\ \E text \in ChatTexts, files \in FileLists, saved \in BOOLEAN :
        /\ StartCompletion(dbMessages
                           \o (IF Truthy(text) /\ saved
                               THEN <<Message("user", text)>> ELSE <<>>)
                           \o UploadMessages(files),
                           dbDocuments \o UploadedDocuments(files, dbDocuments))
        /\ failed' = IF Truthy(text) /\ ~saved THEN {"message insert"} ELSE {}
    /\ turns' = turns + 1
    /\ UNCHANGED <<persons, cases, requests>>
    /\ UNCHANGED <<intakeVars, pureVars>>

\* a sequence without its k-th element
Without(seq, k) == SubSeq(seq, 1, k - 1) \o SubSeq(seq, k + 1, Len(seq))

\* if (!text) return
NoTextNever(text) == FALSE
NoText(text) == ~Truthy(text)

\* the row savePerson inserts from the extracted person data
ChatPersonRow(personData, transcript) ==
    [ full_name |-> personData.full_name,
      email |-> personData.email,
      client_type |-> IF Truthy(personData.client_type)
                      THEN personData.client_type ELSE "private",
      consent_share_with_lawyer |-> "true",
      conversation_id |-> ConversationId,
      via |-> "chat",
      consentRecorded |-> ConsentInTranscript(transcript) ]

\* the row saveCase inserts from the extraction
ChatCaseRow(extraction, personId, transcript) ==
    [ conversation_id |-> ConversationId,
      person_id |-> personId,
      title |-> IF Truthy(extraction.data.rechtsgebiet)
                THEN extraction.data.rechtsgebiet ELSE "Neuer Fall",
      urgency_level |-> IF Truthy(extraction.data.dringlichkeit)
                        THEN extraction.data.dringlichkeit ELSE "medium",
      status |-> "intake",
      via |-> "chat",
      consentRecorded |-> ConsentInTranscript(transcript) ]

\* the writes of the try block: savePerson and linkPersonToConversation when
\* inserted, saveCase and updateConversationStatus when caseSaved
SaveRows(allMessages, personData, extraction, inserted, caseSaved) ==
    /\ persons' = IF inserted
                  THEN Append(persons, ChatPersonRow(personData, allMessages))
                  ELSE persons
    /\ cases' = IF caseSaved
                THEN Append(cases,
                            ChatCaseRow(extraction,
                                        IF inserted THEN Len(persons) + 1 ELSE NoId,
                                        allMessages))
                ELSE cases
    /\ conversation' =
           [conversation EXCEPT
               !.person_id = IF inserted THEN Len(persons) + 1 ELSE @,
               !.status = IF caseSaved THEN "case_created" ELSE @]

\* the try block of the callback; personSaved and caseSaved tell whether the
\* two inserts succeed
SavePersonAndCase(allMessages, documents, unsaved, personSaved, caseSaved) ==
    /\ SaveRows(allMessages,
                extractPersonData(allMessages),
                extractCaseData(allMessages, documents),
                isPersonDataComplete(extractPersonData(allMessages)) /\ personSaved,
                caseSaved)
    /\ failed' =
           unsaved
           \cup (IF isPersonDataComplete(extractPersonData(allMessages)) /\ ~personSaved
               THEN {"person insert"} ELSE {})
           \cup (IF ~caseSaved THEN {"case insert"} ELSE {})

\* a callback that saves whether or not consent was found
ShouldSaveAlways(hasConsent, updatedIntakeResult) == TRUE

\* const shouldSave = hasConsent || (state.consentGiven && shouldCreateCase)
ShouldSave(hasConsent, updatedIntakeResult) ==
    hasConsent \/ (updatedIntakeResult.state.consentGiven
                   /\ updatedIntakeResult.shouldCreateCase)

\* the branches of the callback after its checks
Decide(allMessages, documents, unsaved, shouldSave, hasPersonData, updatedIntakeResult) ==
    IF shouldSave /\ hasPersonData
    THEN \E personSaved, caseSaved \in BOOLEAN :
             SavePersonAndCase(allMessages, documents, unsaved, personSaved, caseSaved)
    ELSE IF shouldSave /\ ~hasPersonData
    THEN /\ failed' = unsaved
         /\ UNCHANGED <<conversation, persons, cases>>
    ELSE IF updatedIntakeResult.state.intakeComplete
    THEN /\ conversation' = [conversation EXCEPT !.status = "intake_complete"]
         /\ failed' = unsaved
         /\ UNCHANGED <<persons, cases>>
    ELSE /\ failed' = unsaved
         /\ UNCHANGED <<conversation, persons, cases>>

\* the callback from saveMessage on: the answer is stored unless its insert
\* fails (unsaved), the transcript is read again, consent and person data are
\* checked
Finish(allMessages, documents, unsaved) ==
    /\ dbMessages' = allMessages
    /\ Decide(allMessages, documents, unsaved,
              ShouldSave(detectUserConsent(allMessages),
                         updateIntakeState(allMessages, documents, HandlerPreviousState)),
              hasProvidedPersonData(allMessages),
              updateIntakeState(allMessages, documents, HandlerPreviousState))

\* the completion callback onFinish({text}) of the k-th completion in flight
OnFinish ==
    /\ \E k \in 1..Len(streams), text \in CompletionTexts, saved \in BOOLEAN :
        /\ streams' = Without(streams, k)
        /\ event' = [op |-> "finished", status |-> 200, text |-> text]
        /\ IF NoText(text)
           THEN /\ failed' = {}
                /\ UNCHANGED <<conversation, dbMessages, persons, cases>>
           ELSE Finish(IF saved THEN Append(dbMessages, Message("assistant", text))
                       ELSE dbMessages,
                       streams[k].documents,
                       IF saved THEN {} ELSE {"message insert"})
    /\ UNCHANGED <<dbDocuments, turns, requests, intakeRuns>>
    /\ UNCHANGED <<intakeVars, pureVars>>

\* the completion is aborted: the callback of the k-th completion never runs
Abort ==
    /\ \E k \in 1..Len(streams) : streams' = Without(streams, k)
    /\ event' = [op |-> "aborted", status |-> 0, text |-> ""]
    /\ failed' = {}
    /\ UNCHANGED <<conversation, dbMessages, dbDocuments, persons, cases, turns,
                   requests, intakeRuns>>
    /\ UNCHANGED <<intakeVars, pureVars>>

\* the bodies of POST /api/person
ValidPersonBody ==
    [ conversationId |-> ConversationId,
      full_name |-> "Anna Schmidt",
      email |-> "anna@example.de",
      client_type |-> "private",
      company_name |-> Undefined,
      preferred_contact_method |-> Undefined,
      consent_share_with_lawyer |-> "true" ]
PersonBodies ==
    { ValidPersonBody,
      [ValidPersonBody EXCEPT !.consent_share_with_lawyer = "false"],
      [ValidPersonBody EXCEPT !.consent_share_with_lawyer = Undefined],
      [ValidPersonBody EXCEPT !.email = "anna"],
      [ValidPersonBody EXCEPT !.client_type = "company"],
      [ValidPersonBody EXCEPT !.full_name = "A", !.email = "anna",
                              !.consent_share_with_lawyer = Undefined],
      [ValidPersonBody EXCEPT !.conversationId = Undefined] }

\* details: validation.errors
\* (variant: only the first message is reported)
FirstDetailOnly(validation) == SubSeq(validation.errors, 1, 1)
ValidationDetails(validation) == validation.errors

\* the answer of a person or case request: the status, the error or message
\* text and the details of a validation failure, with the body it answers
RouteResponse(op, status, text, body, details) ==
    [op |-> op, status |-> status, text |-> text, body |-> body, details |-> details]

\* POST /api/person
PostPerson ==
    /\ requests < MaxRequests
    /\ requests' = requests + 1
    /\ \E body \in PersonBodies, inserted \in BOOLEAN :
        IF ~Truthy(body.conversationId)
        THEN /\ failed' = {}
     /\ event' = RouteResponse("person", 400, "Conversation ID erforderlich",
                                       body, <<>>)
             /\ UNCHANGED <<persons, conversation>>
        ELSE IF ~validatePersonData(body).valid
        THEN /\ failed' = {}
     /\ event' = RouteResponse("person", 400, "Validierungsfehler", body,
                                       ValidationDetails(validatePersonData(body)))
             /\ UNCHANGED <<persons, conversation>>
        ELSE IF body.consent_share_with_lawyer # "true"
        THEN /\ failed' = {}
     /\ event' = RouteResponse("person", 400,
                                       "Einwilligung zur Weitergabe an Anwalt erforderlich",
                                       body, <<>>)
             /\ UNCHANGED <<persons, conversation>>
        ELSE IF ~inserted
        THEN /\ failed' = {"person insert"}
     /\ event' = RouteResponse("person", 500,
                                       "Fehler beim Speichern der Personendaten",
                                       body, <<>>)
             /\ UNCHANGED <<persons, conversation>>
        ELSE /\ persons' = Append(persons,
                               [ full_name |-> body.full_name,
                                 email |-> body.email,
                                 client_type |-> body.client_type,
                                 consent_share_with_lawyer |-> body.consent_share_with_lawyer,
                                 conversation_id |-> body.conversationId,
                                 via |-> "person route",
                                 consentRecorded |->
                                     body.consent_share_with_lawyer = "true" ])
             /\ conversation' =
                    IF conversation.exists /\ body.conversationId = ConversationId
                    THEN [conversation EXCEPT !.person_id = Len(persons) + 1]
                    ELSE conversation
             /\ failed' = {}
     /\ event' = RouteResponse("person", 200,
                                       "Personendaten erfolgreich gespeichert",
                                       body, <<>>)
    /\ UNCHANGED <<dbMessages, dbDocuments, cases, streams, turns, intakeRuns>>
    /\ UNCHANGED <<intakeVars, pureVars>>

\* the bodies of POST /api/case
PlainCaseBody ==
    [ conversationId |-> ConversationId, title |-> Undefined, urgencyLevel |-> Undefined,
      deadlineDate |-> Undefined, estimatedValue |-> NoValue ]
CaseBodies ==
    { PlainCaseBody,
      [PlainCaseBody EXCEPT !.urgencyLevel = "high"],
      [PlainCaseBody EXCEPT !.urgencyLevel = "sofort"],
      [PlainCaseBody EXCEPT !.conversationId = OtherConversationId],
      [PlainCaseBody EXCEPT !.conversationId = Undefined] }

\* consent for the conversation is on record when a case request arrives: in
\* the transcript, or with a person stored for it
ConsentOnRecord ==
    \/ ConsentInTranscript(dbMessages)
    \/ \E k \in 1..Len(persons) :
           /\ persons[k].conversation_id = ConversationId
           /\ persons[k].consent_share_with_lawyer = "true"

\* a lookup that takes every conversation id for an existing conversation
ConversationAssumed(body) == Truthy(body.conversationId)

\* the lookup of the conversation by the id of the body
ConversationFound(body) ==
    conversation.exists /\ body.conversationId = ConversationId

\* POST /api/case
PostCase ==
    /\ requests < MaxRequests
    /\ requests' = requests + 1
    /\ \E body \in CaseBodies, inserted \in BOOLEAN :
        IF ~validateCaseData(body).valid
        THEN /\ failed' = {}
     /\ event' = RouteResponse("case", 400, "Validierungsfehler", body,
                                       ValidationDetails(validateCaseData(body)))
             /\ UNCHANGED <<cases, conversation, dbDocuments>>
        ELSE IF ~ConversationFound(body)
        THEN /\ failed' = {}
     /\ event' = RouteResponse("case", 404, "Conversation nicht gefunden",
                                       body, <<>>)
             /\ UNCHANGED <<cases, conversation, dbDocuments>>
        ELSE IF ~inserted
        THEN /\ failed' = {"case insert"}
     /\ event' = RouteResponse("case", 500, "Fehler beim Erstellen des Falls",
                                       body, <<>>)
             /\ UNCHANGED <<cases, conversation, dbDocuments>>
        ELSE /\ cases' = Append(cases,
                             [ conversation_id |-> body.conversationId,
                               person_id |-> conversation.person_id,
                               title |-> IF Truthy(body.title) THEN body.title
                                         ELSE "Neuer Fall",
                               urgency_level |-> IF Truthy(body.urgencyLevel)
                                                 THEN body.urgencyLevel ELSE "medium",
                               status |-> "intake",
                               via |-> "case route",
                               consentRecorded |-> ConsentOnRecord ])
             /\ conversation' = [conversation EXCEPT !.status = "case_created"]
             /\ dbDocuments' =
                    [k \in 1..Len(dbDocuments) |->
                        [dbDocuments[k] EXCEPT !.linked_case_id = Len(cases) + 1]]
             /\ failed' = {}
     /\ event' = RouteResponse("case", 200, "Fall erfolgreich erstellt",
                                       body, <<>>)
    /\ UNCHANGED <<dbMessages, persons, streams, turns, intakeRuns>>
    /\ UNCHANGED <<intakeVars, pureVars>>

NextHandler == ChatPost \/ OnFinish \/ Abort \/ PostPerson \/ PostCase

(***************************************************************************)
(* The functions on their own.                                             *)
(***************************************************************************)
NotCalled == [op |-> "none", result |-> <<>>, calls |-> <<>>]
InitIdle ==
    /\ argument = [kind |-> "none"]
    /\ returned = NotCalled

PersonInputs ==
    [ full_name : {Undefined, "", " A ", "Anna Schmidt"},
      email : {Undefined, "anna", "anna@example.de"},
      client_type : {Undefined, "private", "company", "firma"},
      company_name : {Undefined, "X", "ACME GmbH"},
      preferred_contact_method : {Undefined, "email", "fax"},
      consent_share_with_lawyer : {Undefined, "true", "false", "ja"} ]

CaseInputs ==
    [ conversationId : {Undefined, "", ConversationId},
      title : {Undefined},
      urgencyLevel : {Undefined, "high", "sofort"},
      deadlineDate : {Undefined, "", "15.03.2024", "31.02.2024", "2024-03-15", "morgen"},
      estimatedValue : {NoValue, NumberValue(-1), NumberValue(0), NumberValue(5000),
                        StringValue} ]

\* DD.MM.YYYY strings, with and without leading zeros, over days and months
\* that exist and that do not, a leap year, a common year and a year below 100
Years == {50, 2023, 2024}
GermanDateText(day, month, year) ==
    Pad2(day) \o "." \o Pad2(month) \o "." \o Pad4(year)
ShortDateText(day, month, year) ==
    CharAt(DigitString, day + 1) \o "." \o CharAt(DigitString, month + 1)
        \o "." \o Pad4(year)
DateTexts ==
    {GermanDateText(d, m, y) : d \in 0..MaxDay, m \in 0..MaxMonth, y \in Years}
    \cup {ShortDateText(d, m, y) : d \in 0..9, m \in 0..9, y \in Years}
    \cup {"2024-01-05", "2023-12-31", "2024-02-30", "2024-13-01", "31.12.23",
          "morgen", ""}
\* minutes the local time of the process is ahead of UTC: New York, UTC, Berlin
TimezoneOffsets == {-300, 0, 60}
DateInputs == [text : DateTexts, timezoneOffset : TimezoneOffsets]

ExtractionInputs ==
    [messages : UserTranscripts, documents : {<<>>}]
    \cup [messages : ChatTranscripts, documents : DocumentLists]
\* the input of the calls made in between
OtherExtractionInput ==
    [messages |-> <<Message("user", CaseDescription)>>, documents |-> <<>>]

\* vectors of keyword counts, one count for every legal area
ScoreVectors == [1..Len(AreaNames) -> 0..MaxHits]

\* texts made of keywords of the lexicons: some keywords of one area, or two
\* different keywords of any areas
KeywordsOf(k, chosen) ==
    SelectSeq([i \in 1..Len(RECHTSGEBIET_KEYWORDS[k]) |->
                  IF i \in chosen THEN RECHTSGEBIET_KEYWORDS[k][i] ELSE ""],
              LAMBDA word : word # "")
AreaCorpora ==
    UNION {{KeywordsOf(k, chosen) :
                chosen \in {c \in SUBSET (1..Len(RECHTSGEBIET_KEYWORDS[k])) :
                               Cardinality(c) \in 2..MaxCorpusWords}} :
           k \in 1..Len(AreaNames)}
PairCorpora ==
    { pair \in
          UNION {{<<RECHTSGEBIET_KEYWORDS[p[1]][m], RECHTSGEBIET_KEYWORDS[p[2]][n]>> :
                      m \in DOMAIN RECHTSGEBIET_KEYWORDS[p[1]],
                      n \in DOMAIN RECHTSGEBIET_KEYWORDS[p[2]]} :
                 p \in {q \in (DOMAIN AreaNames) \X (DOMAIN AreaNames) : q[1] < q[2]}} :
        pair[1] # pair[2] }
KeywordCorpora == AreaCorpora \cup PairCorpora

InitFunctions ==
    /\ InitIntake
    /\ InitHandler
    /\ returned = NotCalled
    /\ argument \in
           {[kind |-> "person", data |-> d] : d \in PersonInputs}
           \cup {[kind |-> "case", data |-> d] : d \in CaseInputs}
           \cup {[kind |-> "date", data |-> d] : d \in DateInputs}
           \cup {[kind |-> "extraction", data |-> d] : d \in ExtractionInputs}
           \cup {[kind |-> "scores", data |-> [counts |-> d]] : d \in ScoreVectors}
           \cup {[kind |-> "corpus", data |-> [words |-> d]] : d \in KeywordCorpora}

ValidatePerson ==
    /\ argument.kind = "person"
    /\ returned.op = "none"
    /\ returned' = [NotCalled EXCEPT !.op = "validatePersonData",
                                     !.result = validatePersonData(argument.data)]
    /\ UNCHANGED <<argument, intakeVars, handlerVars>>

ValidateCase ==
    /\ argument.kind = "case"
    /\ returned.op = "none"
    /\ returned' = [NotCalled EXCEPT !.op = "validateCaseData",
                                     !.result = validateCaseData(argument.data)]
    /\ UNCHANGED <<argument, intakeVars, handlerVars>>

ParseDate ==
    /\ argument.kind = "date"
    /\ returned.op = "none"
    /\ returned' = [NotCalled EXCEPT !.op = "parseGermanDate",
                                     !.result = parseGermanDate(argument.data.text,
                                                                argument.data.timezoneOffset)]
    /\ UNCHANGED <<argument, intakeVars, handlerVars>>

\* one call of extractCaseData; it reads its inputs and builds new objects
ExtractionCall(input) ==
    [ messages |-> input.messages,
      documents |-> input.documents,
      result |-> extractCaseData(input.messages, input.documents) ]
Extracted(input) ==
    /\ argument.kind = "extraction"
    /\ Len(returned.calls) < MaxExtractions
    /\ returned' = [returned EXCEPT !.op = "extractCaseData",
                                    !.calls = Append(@, ExtractionCall(input))]
    /\ UNCHANGED <<argument, intakeVars, handlerVars>>
ExtractCase == Extracted(argument.data)
ExtractOther == Extracted(OtherExtractionInput)

\* the loop and the threshold of detectRechtsgebiet on a vector of counts
ClassifyCounts ==
    /\ argument.kind = "scores"
    /\ returned.op = "none"
    /\ returned' = [NotCalled EXCEPT !.op = "detectRechtsgebiet",
                                     !.result = ClassifyScores(argument.data.counts)]
    /\ UNCHANGED <<argument, intakeVars, handlerVars>>

\* detectRechtsgebiet on a text of keywords
DetectArea ==
    /\ argument.kind = "corpus"
    /\ returned.op = "none"
    /\ returned' = [NotCalled EXCEPT !.op = "detectRechtsgebiet",
                                     !.result = detectRechtsgebiet(Join(argument.data.words, " "))]
    /\ UNCHANGED <<argument, intakeVars, handlerVars>>

NextFunctions ==
    \/ ValidatePerson \/ ValidateCase \/ ParseDate \/ ExtractCase \/ ExtractOther
    \/ ClassifyCounts \/ DetectArea

Init == InitIntake /\ InitHandler /\ InitIdle

Spec == Init /\ [][Next]_vars

SpecHandler == Init /\ [][NextHandler]_vars

SpecFunctions == InitFunctions /\ [][NextFunctions]_vars

\* updateIntakeState in a dialogue of turns, with further calls in between
SpecTurns == Init /\ [][NextTurns]_vars

\* a dialogue in which every turn is one call and the turns go on: as long as
\* a turn can be added to the transcript, one eventually is (the steps that
\* add a turn to the transcript are the Turn steps)
TurnAdded ==
    /\ UserCount(messages) < MaxIntakeTurns
    /\ \E text \in TurnTexts :
          /\ text \in OncePerDialogue => CountOf(messages, text) = 0
          /\ messages' = Append(Append(messages, Message("user", text)),
                                Message("assistant", ReplyText))
SpecDialogue == Init /\ [][Turn]_vars /\ WF_messages(TurnAdded)

(***************************************************************************)
(* Properties of updateIntakeState over a kept state (Spec).  last is      *)
(* non-empty exactly in the states a call has just produced, and then      *)
(* state is the state that call returned.                                  *)
(***************************************************************************)
JustCalled == Len(last) = 1

\* C2: whenever the state returned by updateIntakeState has consentGiven =
\* FALSE, the returned shouldCreateCase is FALSE, whatever intakeComplete is.
C2_NoCaseWithoutConsent ==
    JustCalled /\ ~state.consentGiven => ~last[1].result.shouldCreateCase

\* a call returned a complete intake without consent, and asked for no case
C2_Witness ==
    /\ JustCalled
    /\ state.intakeComplete /\ ~state.consentGiven
    /\ ~last[1].result.shouldCreateCase

\* C4: from one call to the next the phase number never decreases, except
\* along the edge CaseFileGeneration -> TargetedQuestions.
C4_PhaseMonotonic ==
    JustCalled =>
        \/ state.phase >= last[1].before.phase
        \/ /\ last[1].before.phase = CASE_FILE_GENERATION
           /\ state.phase = TARGETED_QUESTIONS

\* the regression edge has been taken
C4_Witness ==
    /\ JustCalled
    /\ last[1].before.phase = CASE_FILE_GENERATION
    /\ state.phase = TARGETED_QUESTIONS

\* the phrases the Consent phase looks for in the last user message
ClaimedNegativePhrases == <<"nein", "nicht", "ablehne", "keine zustimmung">>
SaysYes(text) ==
    /\ SomeIncluded(text, ConsentPositivePatterns)
    /\ ~SomeIncluded(text, ClaimedNegativePhrases)
SaysNo(text) == SomeIncluded(text, ConsentDeniedPatterns)

\* C7: in the Consent phase, consent is newly recorded and the case asked for
\* exactly when the last user message has a positive phrase and none of the
\* negative phrases; otherwise a message of the denial lexicon clears
\* consentGiven and asks for no case; any other message leaves consentGiven
\* as it was, re-emits the consent request and sets shouldAskForConsent.
C7_ConsentPhase ==
    JustCalled /\ last[1].before.phase = CONSENT =>
        LET text == last[1].lastUserContent
            result == last[1].result
        IN  /\ state.phase = CONSENT
            /\ SaysYes(text) =>
                   /\ state.consentGiven /\ result.shouldCreateCase
                   /\ result.systemPromptAddition = generateConsentConfirmationPrompt
                   /\ ~result.shouldAskForConsent
            /\ ~SaysYes(text) /\ SaysNo(text) =>
                   /\ ~state.consentGiven /\ ~result.shouldCreateCase
                   /\ result.systemPromptAddition = ConsentDeclinedPrompt
                   /\ ~result.shouldAskForConsent
            /\ ~SaysYes(text) /\ ~SaysNo(text) =>
                   /\ state.consentGiven = last[1].before.consentGiven
                   /\ result.systemPromptAddition = generateConsentPrompt
                   /\ result.shouldAskForConsent

\* a message with a positive and a negative phrase arrived in the Consent
\* phase: the consent request was emitted again and no consent recorded
C7_Witness ==
    /\ JustCalled
    /\ last[1].before.phase = CONSENT
    /\ last[1].lastUserContent = HesitantText
    /\ ~state.consentGiven
    /\ last[1].result.shouldAskForConsent

\* C8: a call that starts from a state with intakeComplete and consentGiven
\* and leaves both TRUE returns shouldCreateCase = TRUE, also when the call
\* itself detected no consent.
C8_CreateCaseCarried ==
    /\ JustCalled
    /\ last[1].before.intakeComplete /\ last[1].before.consentGiven
    /\ state.intakeComplete /\ state.consentGiven
    => last[1].result.shouldCreateCase

\* such a call re-emitted the consent request and still asked for the case
C8_Witness ==
    /\ JustCalled
    /\ last[1].before.intakeComplete /\ last[1].before.consentGiven
    /\ state.intakeComplete /\ state.consentGiven
    /\ last[1].result.shouldAskForConsent
    /\ last[1].result.systemPromptAddition = generateConsentPrompt
    /\ last[1].result.shouldCreateCase

\* C9: while every call has seen at most one user message the phase is
\* FreeText; the first call that sees two or more moves it to
\* AutomaticExtraction; both kinds of call emit the free-text instruction.
C9_FreeText ==
    /\ onlySingle => state.phase = FREE_TEXT
    /\ JustCalled /\ last[1].onlySingleBefore =>
           /\ last[1].result.systemPromptAddition = generateFreeTextPrompt
           /\ last[1].users >= 2 => state.phase = AUTOMATIC_EXTRACTION
           /\ last[1].users <= 1 => state.phase = FREE_TEXT

\* after calls that saw one message, a call saw two and left FreeText
C9_Witness ==
    /\ JustCalled
    /\ calls >= 2
    /\ last[1].onlySingleBefore /\ ~onlySingle
    /\ last[1].users >= 2
    /\ state.phase = AUTOMATIC_EXTRACTION

\* along calls that all see two or more user messages and a complete,
\* confident extraction: AutomaticExtraction after the first call,
\* DeadlinesUrgency after the second, TargetedQuestions never
CompleteRunOrder ==
    allComplete =>
        /\ calls = 1 => state.phase = AUTOMATIC_EXTRACTION
        /\ calls = 2 => state.phase = DEADLINES_URGENCY
        /\ calls >= 1 => state.phase # TARGETED_QUESTIONS
        /\ state.phase # FREE_TEXT => calls >= 1

\* C10 as stated: ... and the phase is CaseFileGeneration (or later) after at
\* most 3 calls.
C10_WithinThreeCalls ==
    /\ CompleteRunOrder
    /\ allComplete /\ calls >= 3 => state.phase >= CASE_FILE_GENERATION

\* C10, amended: the deadline question takes a call of its own, so the third
\* call stays in DeadlinesUrgency and the phase is CaseFileGeneration after
\* the fourth call.
C10_WithinFourCalls ==
    /\ CompleteRunOrder
    /\ allComplete /\ calls = 3 =>
           state.phase = DEADLINES_URGENCY /\ state.deadlinesAsked
    /\ allComplete /\ calls = 4 => state.phase = CASE_FILE_GENERATION
    /\ allComplete /\ calls >= 4 => state.phase >= CASE_FILE_GENERATION

\* the fourth call of such a run has entered CaseFileGeneration
C10_Witness ==
    /\ JustCalled
    /\ allComplete /\ calls = 4
    /\ last[1].before.phase = DEADLINES_URGENCY
    /\ state.phase = CASE_FILE_GENERATION

\* C11: over any sequence of updateIntakeState calls from the initial state
\* the deadline questions are emitted at most once; they have been emitted
\* exactly once when the phase has reached CaseFileGeneration, and only by a
\* call in DeadlinesUrgency with deadlinesAsked false; a call in
\* DeadlinesUrgency with deadlinesAsked true moves to CaseFileGeneration and
\* emits nothing, whatever the user message and the extraction are.
C11_DeadlinesAskedOnce ==
    /\ deadlinePrompts <= 1
    /\ state.phase >= CASE_FILE_GENERATION => deadlinePrompts = 1
    /\ JustCalled =>
        /\ last[1].result.systemPromptAddition = generateDeadlinesPrompt
           <=> (last[1].before.phase = DEADLINES_URGENCY
                /\ ~last[1].before.deadlinesAsked)
        /\ (last[1].before.phase = DEADLINES_URGENCY /\ last[1].before.deadlinesAsked)
           => state.phase = CASE_FILE_GENERATION

\* a call in DeadlinesUrgency with the questions already asked has moved on
C11_Witness ==
    /\ JustCalled
    /\ last[1].before.phase = DEADLINES_URGENCY
    /\ last[1].before.deadlinesAsked
    /\ last[1].result.systemPromptAddition = Undefined
    /\ state.phase = CASE_FILE_GENERATION
    /\ deadlinePrompts = 1

\* the elements of a sequence
Elements(seq) == {seq[k] : k \in 1..Len(seq)}
NoDuplicates(seq) == \A j, k \in 1..Len(seq) : seq[j] = seq[k] => j = k

\* what the call has appended to questionsAsked
AppendedQuestions ==
    SubSeq(state.questionsAsked, Len(last[1].before.questionsAsked) + 1,
           Len(state.questionsAsked))

\* the questions the extractor suggests for the messages of the call
SuggestedNow == extractCaseData(messages, <<>>).suggestedQuestions

\* C21: a call in TargetedQuestions stays in the phase exactly when the overall
\* confidence is below 0.6 and a suggested question is not yet in
\* questionsAsked; it then emits at most 2 questions, none of them asked
\* before, and appends exactly those to questionsAsked, which never holds a
\* question twice; otherwise it moves to DeadlinesUrgency when deadlinesAsked
\* is false and to CaseFileGeneration when it is true.
C21_TargetedQuestions ==
    JustCalled /\ last[1].before.phase = TARGETED_QUESTIONS =>
        /\ state.phase = TARGETED_QUESTIONS
           <=> /\ state.confidence < CONFIDENCE_THRESHOLD
               /\ Elements(SuggestedNow) \ Elements(last[1].before.questionsAsked) # {}
        /\ state.phase = TARGETED_QUESTIONS =>
              /\ Len(AppendedQuestions) \in 1..2
              /\ Elements(AppendedQuestions) \subseteq Elements(SuggestedNow)
              /\ Elements(AppendedQuestions)
                     \cap Elements(last[1].before.questionsAsked) = {}
              /\ state.questionsAsked = last[1].before.questionsAsked \o AppendedQuestions
              /\ last[1].result.systemPromptAddition
                     = generateTargetedQuestionsPrompt(AppendedQuestions)
              /\ NoDuplicates(state.questionsAsked)
        /\ state.phase # TARGETED_QUESTIONS =>
              /\ state.phase = IF ~last[1].before.deadlinesAsked THEN DEADLINES_URGENCY
                               ELSE CASE_FILE_GENERATION
              /\ state.questionsAsked = last[1].before.questionsAsked
              /\ last[1].result.systemPromptAddition = Undefined

\* a call in TargetedQuestions has asked questions and stayed, and a later
\* call in the phase has found nothing new to ask and moved on
C21_Witness ==
    /\ JustCalled
    /\ last[1].before.phase = TARGETED_QUESTIONS
    /\ state.phase \in {DEADLINES_URGENCY, CASE_FILE_GENERATION}
    /\ state.confidence < CONFIDENCE_THRESHOLD
    /\ Len(state.questionsAsked) = 2

\* the fields the extractor reports missing for the messages of the call
MissingNow == extractCaseData(messages, <<>>).missingFields

\* C24: a call in AutomaticExtraction always leaves the phase: to
\* TargetedQuestions if the extraction reports a missing field, else to
\* DeadlinesUrgency if deadlinesAsked is false, else to CaseFileGeneration.
C24_AutomaticExtractionLeaves ==
    JustCalled /\ last[1].before.phase = AUTOMATIC_EXTRACTION =>
        state.phase = IF Len(MissingNow) > 0 THEN TARGETED_QUESTIONS
                      ELSE IF ~last[1].before.deadlinesAsked THEN DEADLINES_URGENCY
                      ELSE CASE_FILE_GENERATION

\* a call in AutomaticExtraction found a field missing and moved to the
\* targeted questions
C24_Witness ==
    /\ JustCalled
    /\ last[1].before.phase = AUTOMATIC_EXTRACTION
    /\ Len(MissingNow) > 0
    /\ state.phase = TARGETED_QUESTIONS

\* C27: in every state reached from the initial state by updateIntakeState
\* calls, consentGiven implies that the phase is Consent and that
\* intakeComplete, personDataRequested and deadlinesAsked are set; and once
\* the phase is Consent it is Consent after every later call.
C27_ConsentIsLast ==
    /\ state.consentGiven =>
           /\ state.phase = CONSENT
           /\ state.intakeComplete
           /\ state.personDataRequested
           /\ state.deadlinesAsked
    /\ JustCalled /\ last[1].before.phase = CONSENT => state.phase = CONSENT

\* consent was given, and a later call was made in the Consent phase
C27_Witness ==
    /\ JustCalled
    /\ last[1].before.phase = CONSENT
    /\ last[1].before.consentGiven
    /\ state.consentGiven
    /\ state.phase = CONSENT

\* one sequence continues the other
IsPrefix(short, long) ==
    Len(short) <= Len(long) /\ SubSeq(long, 1, Len(short)) = short

\* C30: a call changes a flag only in the phase that owns it: intakeComplete
\* in CaseFileGeneration, deadlinesAsked in DeadlinesUrgency,
\* personDataRequested in PersonData, consentGiven in Consent and
\* questionsAsked in TargetedQuestions; intakeComplete, deadlinesAsked and
\* personDataRequested never go from true to false, and questionsAsked only
\* grows.
C30_FlagsChangeInTheirPhase ==
    JustCalled =>
        /\ state.intakeComplete # last[1].before.intakeComplete
            => last[1].before.phase = CASE_FILE_GENERATION
        /\ state.deadlinesAsked # last[1].before.deadlinesAsked
            => last[1].before.phase = DEADLINES_URGENCY
        /\ state.personDataRequested # last[1].before.personDataRequested
            => last[1].before.phase = PERSON_DATA
        /\ state.consentGiven # last[1].before.consentGiven
            => last[1].before.phase = CONSENT
        /\ state.questionsAsked # last[1].before.questionsAsked
            => last[1].before.phase = TARGETED_QUESTIONS
        /\ last[1].before.intakeComplete => state.intakeComplete
        /\ last[1].before.deadlinesAsked => state.deadlinesAsked
        /\ last[1].before.personDataRequested => state.personDataRequested
        /\ IsPrefix(last[1].before.questionsAsked, state.questionsAsked)

\* a call in CaseFileGeneration has set intakeComplete and left the questions
\* asked and deadlinesAsked as they were
C30_Witness ==
    /\ JustCalled
    /\ last[1].before.phase = CASE_FILE_GENERATION
    /\ ~last[1].before.intakeComplete
    /\ state.intakeComplete
    /\ state.deadlinesAsked
    /\ Len(state.questionsAsked) > 0
    /\ ~state.personDataRequested

\* the last user message of the call as the user wrote it
LastUserWritten ==
    LET userMessages == FilterRole(messages, "user")
    IN  IF Len(userMessages) > 0 THEN userMessages[Len(userMessages)].content ELSE ""

\* the message is a name of two capitalized words and nothing else
ConsistsOfName(text) ==
    /\ CapitalizedWordEnd(text, 1) > 0
    /\ AfterSpaces(text, CapitalizedWordEnd(text, 1)) > 0
    /\ CapitalizedWordEnd(text, AfterSpaces(text, CapitalizedWordEnd(text, 1)))
           = Len(text) + 1

\* C23: a call in PersonData sets personDataRequested; it moves to Consent
\* with shouldAskForConsent when the last user message matches the
\* consent-intent lexicon; otherwise it moves to Consent and emits the
\* consent request when the message contains an email pattern or consists of
\* a name of two capitalized words (such as "Anna Schmidt"); otherwise the
\* phase stays PersonData and the person-data request is emitted again.
C23_PersonDataPhase ==
    JustCalled /\ last[1].before.phase = PERSON_DATA =>
        /\ state.personDataRequested
        /\ IF detectConsentIntent(ToLowerCase(LastUserWritten))
           THEN /\ state.phase = CONSENT
                /\ last[1].result.shouldAskForConsent
           ELSE IF Includes(LastUserWritten, "@") \/ ConsistsOfName(LastUserWritten)
           THEN /\ state.phase = CONSENT
                /\ last[1].result.systemPromptAddition = generateConsentPrompt
           ELSE /\ state.phase = PERSON_DATA
                /\ last[1].result.systemPromptAddition = generatePersonDataPrompt

\* C29: the phase moves from CaseFileGeneration to PersonData only in a call
\* that comes after an earlier call which appended the forwarding question to
\* the instruction, so that a user message written before the forwarding
\* question was ever asked cannot trigger the request for person data.
C29_ForwardQuestionFirst ==
    /\ JustCalled
    /\ last[1].before.phase = CASE_FILE_GENERATION
    /\ state.phase = PERSON_DATA
    => last[1].before.forwardAsked

(***************************************************************************)
(* Properties of the handlers over the database, checked under             *)
(* SpecHandler.                                                            *)
(***************************************************************************)

\* C1: no person row and no case row is inserted for the conversation, by the
\* completion callback, POST /api/person or POST /api/case, unless consent was
\* on record before: a consent message of the user in the stored transcript,
\* or consent_share_with_lawyer = true in the request (for a case request,
\* with the person stored for the conversation).  POST /api/case inserts
\* without looking for consent, so the rows do not all carry it.
C1_ConsentBeforeRecords ==
    /\ \A k \in 1..Len(persons) : persons[k].consentRecorded
    /\ \A k \in 1..Len(cases) : cases[k].consentRecorded

\* C3: over any sequence of chat turns of the conversation, callbacks
\* interleaved or not, the completion callbacks insert at most one person row
\* and at most one case row.  Every callback that sees consent and person
\* data inserts again.
ChatRows(table) == {k \in 1..Len(table) : table[k].via = "chat"}
C3_AtMostOnePersonAndCase ==
    /\ Cardinality(ChatRows(persons)) <= 1
    /\ Cardinality(ChatRows(cases)) <= 1

\* C5: a completion that is aborted (its callback never runs) or whose
\* callback runs with an empty text appends no assistant message and writes no
\* person row, no case row and no conversation status.
C5_AbortedCompletionWritesNothing ==
    [][ (event'.op = "aborted" \/ (event'.op = "finished" /\ event'.text = ""))
        => UNCHANGED <<dbMessages, persons, cases, conversation>> ]_vars

\* a callback has run with an empty text on a transcript that holds consent
\* and complete person data, and nothing has been written
C5_Witness ==
    /\ event.op = "finished"
    /\ event.text = ""
    /\ detectUserConsent(dbMessages)
    /\ hasProvidedPersonData(dbMessages)
    /\ FilterRole(dbMessages, "assistant") = <<>>
    /\ persons = <<>>
    /\ cases = <<>>
    /\ conversation.status = "open"

\* C6: the intake state is created at the first turn only: the state the
\* handler's updateIntakeState call starts from at turn n+1 (phase,
\* intakeComplete, consentGiven, deadlinesAsked, questionsAsked) is the state
\* produced at turn n.  The handler passes no previous state, so every turn
\* starts from createInitialIntakeState.
C6_StateCarriedAcrossTurns ==
    \A n \in 1..(Len(intakeRuns) - 1) :
        intakeRuns[n + 1].started = intakeRuns[n].produced

PersonRequestRejected(response) ==
    /\ response.op = "person"
    /\ Truthy(response.body.conversationId)
    /\ \/ ~validatePersonData(response.body).valid
       \/ response.body.consent_share_with_lawyer # "true"

\* C12: POST /api/person with a conversation id inserts no person row and does
\* not update the conversation when validatePersonData reports an error or
\* when consent_share_with_lawyer is not true; it answers 400, and after a
\* validation failure the answer lists the message of every violated rule.
C12_PersonRejectedWithoutWrite ==
    [][ PersonRequestRejected(event')
        => /\ event'.status = 400
           /\ UNCHANGED <<persons, conversation>>
           /\ \A k \in 1..Len(validatePersonData(event'.body).errors) :
                  \E d \in 1..Len(event'.details) :
                      event'.details[d] = validatePersonData(event'.body).errors[k] ]_vars

\* a person request that breaks three rules has been answered
C12_Witness ==
    /\ event.op = "person"
    /\ event.status = 400
    /\ Len(validatePersonData(event.body).errors) = 3
    /\ Len(event.details) = 3
    /\ persons = <<>>
    /\ conversation.exists
    /\ conversation.person_id = NoId

CaseForUnknownConversation(response) ==
    /\ response.op = "case"
    /\ validateCaseData(response.body).valid
    /\ ~(conversation.exists /\ response.body.conversationId = ConversationId)

C16_FailedWriteEndsRequest ==
    [][ failed' # {}
        => /\ event'.status = 500
           /\ "person insert" \in failed' => UNCHANGED <<persons, cases, conversation>>
           /\ "case insert" \in failed' => UNCHANGED <<cases, conversation, dbDocuments>>
           /\ "message insert" \in failed' => UNCHANGED <<persons, cases>> ]_vars

\* C20: every case row written by the completion callback references the
\* conversation and a person row written in the same callback; when the
\* person insert fails, no case row is written and the status is not set to
\* case_created.
C20_ChatCaseReferencesItsPerson ==
    [][ (event'.op = "finished" /\ Len(cases') > Len(cases))
        => /\ Len(persons') = Len(persons) + 1
           /\ cases'[Len(cases')].conversation_id = ConversationId
           /\ cases'[Len(cases')].person_id = Len(persons') ]_vars

\* full name and email are both present in what the transcript yields
NameAndEmailPresent(transcript) ==
    /\ Truthy(extractPersonData(transcript).full_name)
    /\ Truthy(extractPersonData(transcript).email)

\* C18: the completion callback writes person and case rows only when consent
\* is detected and the transcript yields complete person data (full name and
\* email); when consent is detected and the person data is incomplete it
\* writes no person row, no case row and no status.
C18_ChatWritesNeedConsentAndPerson ==
    [][ event'.op = "finished"
        => /\ (persons' # persons \/ cases' # cases)
              => (detectUserConsent(dbMessages') /\ NameAndEmailPresent(dbMessages'))
           /\ (detectUserConsent(dbMessages') /\ ~NameAndEmailPresent(dbMessages'))
              => UNCHANGED <<persons, cases, conversation>> ]_vars

\* a callback has stored its answer on a transcript with consent and without
\* person data, and nothing was written
C18_Witness ==
    /\ event.op = "finished"
    /\ Truthy(event.text)
    /\ failed = {}
    /\ detectUserConsent(dbMessages)
    /\ ~NameAndEmailPresent(dbMessages)
    /\ persons = <<>>
    /\ cases = <<>>
    /\ conversation.status = "open"

\* the phrases of a refusal
RefusalPhrases ==
    <<"nein", "nicht einverstanden", "keine zustimmung", "ablehne", "nicht speichern">>
LastUserMessageRefuses(transcript) ==
    /\ Len(FilterRole(transcript, "user")) > 0
    /\ SomeIncluded(ToLowerCase(FilterRole(transcript, "user")
                                    [Len(FilterRole(transcript, "user"))].content),
                    RefusalPhrases)

\* C19: when the most recent user message contains a negative consent phrase,
\* the completion callback of that turn writes no person and no case row,
\* even when an earlier user message expressed consent.
C19_RefusalStopsWrites ==
    [][ (event'.op = "finished" /\ LastUserMessageRefuses(dbMessages'))
        => UNCHANGED <<persons, cases>> ]_vars

(***************************************************************************)
(* Properties of the functions on their own.                               *)
(***************************************************************************)
\* the rules of a person record and of a case record, each with its message
PersonRules ==
    {"name length", "email", "client type", "company name", "contact method",
     "consent flag"}
CaseRules == {"conversation id", "urgency", "date format", "estimated value"}
RuleMessage ==
    [ r \in PersonRules \cup CaseRules |->
        CASE r = "name length" -> "Name muss mindestens 2 Zeichen haben"
          [] r = "email" -> "Gültige E-Mail-Adresse erforderlich"
          [] r = "client type" -> "Mandantentyp muss \"private\" oder \"company\" sein"
          [] r = "company name" -> "Firmenname erforderlich für Firmenmandanten"
          [] r = "contact method" -> "Kontaktmethode muss \"email\" oder \"phone\" sein"
          [] r = "consent flag" -> "Zustimmung zur Weitergabe an Anwalt erforderlich"
          [] r = "conversation id" -> "Conversation ID erforderlich"
          [] r = "urgency" -> "Dringlichkeit muss \"low\", \"medium\" oder \"high\" sein"
          [] r = "date format" -> "Ungültiges Datumsformat"
          [] r = "estimated value" -> "Streitwert muss eine positive Zahl sein" ]

\* the record breaks the rule
Violates(data, r) ==
    CASE r = "name length" ->
            data.full_name \in {Undefined, ""} \/ Len(Trim(data.full_name)) < 2
      [] r = "email" ->
            data.email \in {Undefined, ""} \/ ~isValidEmail(data.email)
      [] r = "client type" -> data.client_type \notin {"private", "company"}
      [] r = "company name" ->
            /\ data.client_type = "company"
            /\ data.company_name \in {Undefined, ""} \/ Len(Trim(data.company_name)) < 2
      [] r = "contact method" ->
            data.preferred_contact_method \notin {Undefined, "", "email", "phone"}
      [] r = "consent flag" -> data.consent_share_with_lawyer \notin {"true", "false"}
      [] r = "conversation id" -> data.conversationId \in {Undefined, ""}
      [] r = "urgency" -> data.urgencyLevel \notin {Undefined, "", "low", "medium", "high"}
      [] r = "date format" ->
            data.deadlineDate \notin {Undefined, ""} /\ ~isValidDate(data.deadlineDate)
      [] r = "estimated value" ->
            /\ data.estimatedValue # NoValue
            /\ ~(data.estimatedValue.type = "number" /\ data.estimatedValue.value >= 0)

Entries(errors, message) == Cardinality({k \in 1..Len(errors) : errors[k] = message})

OneEntryPerViolatedRule(data, result, rules) ==
    /\ result.valid <=> Len(result.errors) = 0
    /\ \A r \in rules :
           Entries(result.errors, RuleMessage[r]) = IF Violates(data, r) THEN 1 ELSE 0
    /\ Len(result.errors) = Cardinality({r \in rules : Violates(data, r)})

\* C13: validatePersonData and validateCaseData return valid = true exactly
\* when the error list is empty, and every violated rule contributes exactly
\* one entry, so that the number of errors is the number of violated rules.
C13_OneErrorPerViolatedRule ==
    /\ returned.op = "validatePersonData"
       => OneEntryPerViolatedRule(argument.data, returned.result, PersonRules)
    /\ returned.op = "validateCaseData"
       => OneEntryPerViolatedRule(argument.data, returned.result, CaseRules)

\* a case record that breaks all four rules has been validated
C13_Witness ==
    /\ returned.op = "validateCaseData"
    /\ \A r \in CaseRules : Violates(argument.data, r)
    /\ Len(returned.result.errors) = 4
    /\ ~returned.result.valid

\* the day exists in the calendar
DateExists(day, month, year) ==
    /\ month \in 1..12
    /\ day \in 1..DaysInMonth(year, month)

CanonicalOrNone(groups, result) ==
    IF DateExists(groups[1], groups[2], groups[3])
    THEN result = Pad4(groups[3]) \o "-" \o Pad2(groups[2]) \o "-" \o Pad2(groups[1])
    ELSE result = Null

\* C14: for a DD.MM.YYYY string parseGermanDate returns the canonical
\* YYYY-MM-DD string of the same day, month and year when the date exists in
\* the calendar, and none when it does not; it never returns a date with
\* other components.
C14_GermanDateCanonicalOrNone ==
    (returned.op = "parseGermanDate" /\ Len(germanDateRegex(argument.data.text)) = 3)
        => CanonicalOrNone(germanDateRegex(argument.data.text), returned.result)

HighestCount(scores) ==
    CHOOSE n \in 0..MaxHits :
        /\ \E k \in DOMAIN scores : scores[k] = n
        /\ \A k \in DOMAIN scores : scores[k] <= n
FirstWithCount(scores, n) ==
    AreaNames[CHOOSE k \in DOMAIN scores :
                  /\ scores[k] = n
                  /\ \A j \in 1..(k - 1) : scores[j] # n]

\* C25: for every vector of per-area keyword counts the classification is the
\* first area, in the order Mietrecht, Arbeitsrecht, Familienrecht,
\* Verkehrsrecht, Vertragsrecht, Strafrecht, Erbrecht, Sozialrecht, whose
\* count equals the highest count, provided that count is at least 2, and is
\* unset when the highest count is below 2.
C25_FirstHighestArea ==
    (argument.kind = "scores" /\ returned.op = "detectRechtsgebiet") =>
        returned.result =
            IF HighestCount(argument.data.counts) >= 2
            THEN FirstWithCount(argument.data.counts,
                                HighestCount(argument.data.counts))
            ELSE Undefined

\* the highest count is shared by two areas and follows an area that has 2
C25_Witness ==
    /\ argument.kind = "scores"
    /\ returned.op = "detectRechtsgebiet"
    /\ argument.data.counts[1] = 2
    /\ argument.data.counts[2] = 3
    /\ argument.data.counts[5] = 3
    /\ returned.result = "Arbeitsrecht"

\* the keyword counts as the lexicons give them: for every area, how many
\* of the words are keywords of its lexicon
LexiconHits(words) ==
    [k \in DOMAIN AreaNames |->
        Cardinality({i \in DOMAIN words :
                        \E m \in DOMAIN RECHTSGEBIET_KEYWORDS[k] :
                            RECHTSGEBIET_KEYWORDS[k][m] = words[i]})]
AreasHit(words) == {k \in DOMAIN AreaNames : LexiconHits(words)[k] > 0}

\* two or more keywords of one lexicon and none of another
OneAreaOnly(words) ==
    /\ Cardinality(AreasHit(words)) = 1
    /\ \A k \in AreasHit(words) : LexiconHits(words)[k] >= 2
\* one keyword of each of two lexicons and no other keyword
OneAndOne(words) ==
    /\ Len(words) = 2
    /\ Cardinality(AreasHit(words)) = 2
    /\ \A k \in AreasHit(words) : LexiconHits(words)[k] = 1

\* C26: for a text made of lexicon keywords, rechtsgebiet is the area when
\* the text has two or more keywords of exactly one lexicon and none of any
\* other, and is unset when it has exactly one keyword of each of two areas
\* and no other keyword (such as "vermieter" and "chef").
C26_KeywordCorpus ==
    (argument.kind = "corpus" /\ returned.op = "detectRechtsgebiet") =>
        /\ OneAreaOnly(argument.data.words) =>
              \A k \in AreasHit(argument.data.words) : returned.result = AreaNames[k]
        /\ OneAndOne(argument.data.words) => returned.result = Undefined

(***************************************************************************)
(* Properties of updateIntakeState in a dialogue of turns, checked under   *)
(* SpecTurns and SpecDialogue.  The reply of a turn is added after its     *)
(* call, so the assistant messages a call is given are those counted in    *)
(* last before the reply.                                                  *)
(***************************************************************************)
AssistantsGiven == last[1].assistants

\* C22: a call in CaseFileGeneration sets intakeComplete and returns the case
\* summary exactly when the overall confidence is at least 0.6 or at least 6
\* assistant messages exist; it then moves to PersonData with
\* shouldAskForPersonData if the last user message matches the
\* forward-request lexicon, and otherwise stays and appends the forwarding
\* question; when neither condition holds it moves back to TargetedQuestions
\* without setting intakeComplete.
C22_CaseFileGeneration ==
    JustCalled /\ last[1].before.phase = CASE_FILE_GENERATION =>
        IF state.confidence >= 60 \/ AssistantsGiven >= 6
        THEN /\ state.intakeComplete
             /\ last[1].result.suggestedResponse
                    = createCaseSummary(state.extractedData)
             /\ IF detectForwardRequest(last[1].lastUserContent)
                THEN /\ state.phase = PERSON_DATA
                     /\ last[1].result.shouldAskForPersonData
                ELSE /\ state.phase = CASE_FILE_GENERATION
                     /\ ~last[1].result.shouldAskForPersonData
                     /\ EndsWith(last[1].result.systemPromptAddition,
                                 ForwardQuestion)
        ELSE /\ state.phase = TARGETED_QUESTIONS
             /\ state.intakeComplete = last[1].before.intakeComplete
             /\ last[1].result.suggestedResponse = Undefined

\* the sixth assistant message alone has completed the intake: a call in
\* CaseFileGeneration at low confidence has set intakeComplete and stayed to
\* ask the forwarding question
C22_Witness ==
    /\ JustCalled
    /\ last[1].before.phase = CASE_FILE_GENERATION
    /\ ~last[1].before.intakeComplete
    /\ state.confidence < 60
    /\ state.intakeComplete
    /\ state.phase = CASE_FILE_GENERATION
    /\ forwardAsked

\* C28: in a dialogue from the initial state in which every turn adds one user
\* message and one assistant message and calls updateIntakeState once on the
\* kept state, intakeComplete eventually becomes true whatever the confidence
\* of the extraction is: the phase neither stays in FreeText,
\* AutomaticExtraction, TargetedQuestions or DeadlinesUrgency for ever nor
\* goes round between TargetedQuestions and CaseFileGeneration for ever.
C28_IntakeCompletes == <>(state.intakeComplete)

\* the call of the eighth turn has completed the intake at low confidence,
\* after targeted questions were asked
C28_Witness ==
    /\ JustCalled
    /\ last[1].users = 8
    /\ last[1].before.phase = CASE_FILE_GENERATION
    /\ ~last[1].before.intakeComplete
    /\ state.intakeComplete
    /\ state.confidence < 60
    /\ Len(state.questionsAsked) > 0

====
